---- MODULE Spec2Model ----
(***************************************************************************)
(* A model of the tar export writer (lib/src/tar/export.rs) and of the     *)
(* container layer extraction pipeline (ostree-ext/lib/src/container/      *)
(* import.rs).                                                             *)
(*                                                                         *)
(* Strings are sequences of tokens, paths are sequences of components, and *)
(* a component is a sequence of tokens: "sysroot/ostree" is                *)
(* << <<"sysroot">>, <<"ostree">> >>, and the object file name             *)
(* "627e.file" of checksum b8627e is <<"2","7","e",".","file">> under the  *)
(* shard directory <<"b","8">>.                                            *)
(***************************************************************************)
EXTENDS Integers, Sequences, FiniteSets, TLC

(***************************************************************************)
(* The state of an export.                                                 *)
(***************************************************************************)
VARIABLES
    xattrs,      \* the store: the attribute blob of each file object
    writer,      \* the OstreeTarWriter of the running export
    stack,       \* the append_dirtree calls in progress, innermost last
    pc,          \* "idle" | "walk" | "done" | "failed"
    rev,         \* the commit being exported
    error,       \* the error export_commit returned
    prev,        \* the previous finished export of the same commit
    nexports     \* export_commit calls so far

exportVars == <<xattrs, writer, stack, pc, rev, error, prev, nexports>>

(***************************************************************************)
(* The state of the import pipeline.                                       *)
(***************************************************************************)
VARIABLES
    manifest,    \* the manifest find_layer_blobid is applied to
    layerid,     \* its result
    archive,     \* the entries the copy subprocess is to write
    proc,        \* the subprocess: [state, pos] (pos: next unit to write)
    pipe,        \* the units buffered in the named pipe
    pipe_open,   \* the read side of the pipe is open
    epipe,       \* the subprocess wrote into the closed pipe
    worker,      \* find_layer_tar_sync on its blocking thread
    chan,        \* the channel of byte chunks, tx_buf to rx_buf
    consumer,    \* the reader of the layer: [state, received]
    waiter,      \* fetch_layer's waiter: "pending" | "ok" | "failed"
    joined       \* fetch_layer's worker: "pending" | "ok" | "failed"

importVars == <<manifest, layerid, archive, proc, pipe, pipe_open, epipe,
                worker, chan, consumer, waiter, joined>>

(***************************************************************************)
(* The state of import(), which runs the pipeline.                         *)
(***************************************************************************)
VARIABLES
    ipc,         \* import's position, "done" and "failed" once it returned
    sigverify,   \* imgref.sigverify
    policy,      \* what container_policy_is_default_insecure() returned
    tempdir,     \* the staging directory with its named pipe
    tarimport,   \* import_tar: "none" | "pending" | "ok" | "failed"
    result       \* what import returned

orchVars == <<ipc, sigverify, policy, tempdir, tarimport, result>>

(***************************************************************************)
(* The state of a ProgressReader and of its watch channel.                 *)
(***************************************************************************)
VARIABLES
    preader,     \* the ProgressReader: [progress, reader]
    watch,       \* the watch channel: [state, receivers]
    polls        \* the poll_read calls made so far

progressVars == <<preader, watch, polls>>

(***************************************************************************)
(* The calls of the path functions.                                        *)
(***************************************************************************)
VARIABLES
    pathcalls    \* the calls made so far: [fn, objtype, checksum, path]

pathVars == <<pathcalls>>

auxVars == <<orchVars, progressVars, pathVars>>

vars == <<exportVars, importVars, auxVars>>

(***************************************************************************)
(* Bounds of the model.                                                    *)
(***************************************************************************)
\* Length of a checksum in hex characters (64 in the store).
CsumLen == 4
\* format_version is drawn from 0..MaxFormat (0 and 1 are the supported ones).
MaxFormat == 2
\* Number of export_commit calls in one behaviour.
MaxExports == 2
\* Layers of a manifest.
MaxLayers == 3
\* Entries of the archive the copy subprocess writes.
MaxEntries == 2
\* Units (entries, end marker) the named pipe buffers.
PipeCap == 1
\* The most bytes one read of an entry returns (the buffer has 8192).
MaxRead == 2
\* Components of the paths map_path is applied to.
MaxPathLen == 4
\* Hex digits the first and the last character of a checksum are drawn from.
PathHexes == 3
\* poll_read calls on one ProgressReader.
MaxPolls == 3
\* Bytes already filled in the buffer a poll_read call is given.
MaxFilled == 1

(***************************************************************************)
(* Program constants.                                                      *)
(***************************************************************************)
\* libc::S_IFMT, the file type bits of a mode word (0o170000).
S_IFMT == 61440
\* The last shard directory written, 0xFF.
ShardMax == 255

HexDigits == <<"0","1","2","3","4","5","6","7","8","9","a","b","c","d","e","f">>

\* format!("{:02x}", d)
Hex2(d) == <<HexDigits[(d \div 16) + 1], HexDigits[(d % 16) + 1]>>

\* A path whose components are the plain names s[1], s[2], ...
P(s) == [i \in DOMAIN s |-> <<s[i]>>]

SYSROOT == "sysroot"
OSTREEDIR == P(<<"sysroot", "ostree">>)
REPO_CONFIG == <<"[core]", "repo_version=1", "mode=bare-split-xattrs">>

\* Utf8Path::join with a single relative component
join(dirpath, name) == Append(dirpath, <<name>>)

\* Utf8Path::strip_prefix compares whole components
HasPrefix(p, pre) == Len(p) >= Len(pre) /\ SubSeq(p, 1, Len(pre)) = pre

\* map_path that leaves every path as it is
map_path_noop(p) == p

\* Convert /usr/etc back to /etc
map_path(p) ==
    IF HasPrefix(p, P(<<".", "usr", "etc">>))
    THEN P(<<".", "etc">>) \o SubSeq(p, 4, Len(p))
    ELSE p

(***************************************************************************)
(* Path layout.                                                            *)
(***************************************************************************)
\* checksum.split_at(2)
SplitFirst(checksum) == SubSeq(checksum, 1, 2)
SplitRest(checksum) == SubSeq(checksum, 3, Len(checksum))

ObjectSuffix(objtype) ==
    CASE objtype = "Commit" -> "commit"
      [] objtype = "CommitMeta" -> "commitmeta"
      [] objtype = "DirTree" -> "dirtree"
      [] objtype = "DirMeta" -> "dirmeta"
      [] objtype = "File" -> "file"

object_path(objtype, checksum) ==
    OSTREEDIR \o P(<<"repo", "objects">>)
      \o << SplitFirst(checksum),
            SplitRest(checksum) \o <<".", ObjectSuffix(objtype)>> >>

v0_xattrs_path(checksum) ==
    OSTREEDIR \o P(<<"repo", "xattrs">>) \o <<checksum>>

v0_xattrs_object_path(checksum) ==
    OSTREEDIR \o P(<<"repo", "objects">>)
      \o << SplitFirst(checksum),
            SplitRest(checksum) \o <<".", "file", ".", "xattrs">> >>

v1_xattrs_object_path(checksum) ==
    OSTREEDIR \o P(<<"repo", "objects">>)
      \o << SplitFirst(checksum),
            SplitRest(checksum) \o <<".", "file-xattrs">> >>

\* The link path without its -link suffix
v1_xattrs_link_object_path_nolink(checksum) ==
    OSTREEDIR \o P(<<"repo", "objects">>)
      \o << SplitFirst(checksum),
            SplitRest(checksum) \o <<".", "file-xattrs">> >>

v1_xattrs_link_object_path(checksum) ==
    OSTREEDIR \o P(<<"repo", "objects">>)
      \o << SplitFirst(checksum),
            SplitRest(checksum) \o <<".", "file-xattrs-link">> >>

(***************************************************************************)
(* The object store (the external collaborator `ostree::Repo`): a fixed,   *)
(* content-addressed set of objects.  The commit to export, the format     *)
(* version and the files' extended attributes are the inputs.              *)
(***************************************************************************)
\* A checksum: CsumLen hex characters, of which the first and the last vary.
Csum(a, b) ==
    [i \in 1..CsumLen |-> IF i = 1 THEN a ELSE IF i = CsumLen THEN b ELSE "0"]

F1 == Csum("a", "1")
F2 == Csum("a", "2")
F3 == Csum("b", "3")
Files == {F1, F2, F3}

M1 == Csum("f", "1")
M2 == Csum("f", "2")
DirMetas == {M1, M2}

T_leaf == Csum("c", "1")
T_link == Csum("c", "2")
T_usr == Csum("c", "3")
T_sys == Csum("c", "4")
T_root1 == Csum("d", "1")
T_root2 == Csum("d", "2")
T_root3 == Csum("d", "3")
DirTrees == {T_leaf, T_link, T_usr, T_sys, T_root1, T_root2, T_root3}

K1 == Csum("9", "1")
K2 == Csum("9", "2")
K3 == Csum("9", "3")
K4 == Csum("9", "4")
Commits == {K1, K2, K3, K4}

\* The serialized extended attributes a file object may carry.
XattrBlobs == {<< >>, <<"user.k=v">>}

\* hex::encode(sha256(data)): injective on XattrBlobs, and no digest is the
\* checksum of another object of the store.
Sha256Hex(data) == Csum("e", HexDigits[Len(data) + 1])

\* repo.load_file: the metadata of a file object
FileMeta(checksum) ==
    CASE checksum = F1 ->
           [uid |-> 0, gid |-> 0, mode |-> 33188, size |-> 5,
            file_type |-> "Regular", symlink_target |-> << >>]
      [] checksum = F2 ->
           [uid |-> 1000, gid |-> 1000, mode |-> 33261, size |-> 0,
            file_type |-> "Regular", symlink_target |-> << >>]
      [] checksum = F3 ->
           [uid |-> 0, gid |-> 0, mode |-> 41471, size |-> 0,
            file_type |-> "SymbolicLink",
            symlink_target |-> <<"..", "/", "/", "sbin", "/", "chkconfig">>]

\* repo.load_variant(DirMeta): DirMetaParsed
DirMetaParsed(checksum) ==
    CASE checksum = M1 -> [uid |-> 0, gid |-> 0, mode |-> 16877]
      [] checksum = M2 -> [uid |-> 0, gid |-> 42, mode |-> 16832]

\* repo.load_variant(DirTree): (files, dirs)
DirTreeOf(checksum) ==
    CASE checksum = T_leaf ->
           [files |-> << <<"a", F1>>, <<"b", F2>> >>, dirs |-> << >>]
      [] checksum = T_link ->
           [files |-> << <<"a", F1>>, <<"c", F3>>, <<"d", F1>> >>,
            dirs |-> << >>]
      [] checksum = T_usr ->
           [files |-> << >>,
            dirs |-> << <<"etc", T_leaf, M2>>, <<"sysroot", T_link, M1>> >>]
      [] checksum = T_sys ->
           [files |-> << <<"s", F3>> >>, dirs |-> << >>]
      [] checksum = T_root1 ->
           [files |-> << <<"f", F2>> >>,
            dirs |-> << <<"sysroot", T_sys, M2>>, <<"usr", T_usr, M1>> >>]
      [] checksum = T_root2 ->
           [files |-> << >>,
            dirs |-> << <<"etc", T_link, M1>>, <<"opt", T_leaf, M1>>,
                        <<"usr", T_usr, M2>> >>]
      [] checksum = T_root3 ->
           [files |-> << <<"f", F1>> >>,
            dirs |-> << <<"sysroot", T_leaf, M2>> >>]

\* repo.load_commit and repo.read_commit_detached_metadata
CommitOf(checksum) ==
    CASE checksum = K1 ->
           [contents |-> T_root1, metadata |-> M1, commitmeta |-> TRUE]
      [] checksum = K2 ->
           [contents |-> T_root2, metadata |-> M1, commitmeta |-> FALSE]
      [] checksum = K3 ->
           [contents |-> T_root3, metadata |-> M2, commitmeta |-> FALSE]
      [] checksum = K4 ->
           [contents |-> T_link, metadata |-> M2, commitmeta |-> TRUE]


(***************************************************************************)
(* Archive entries.                                                        *)
(***************************************************************************)
Entry(type, path, uid, gid, mode, size, link, data) ==
    [type |-> type, path |-> path, uid |-> uid, gid |-> gid, mode |-> mode,
     size |-> size, link |-> link, data |-> data]

Emit(w, e) == [w EXCEPT !.out = Append(@, e)]

Ok(w) == [w |-> w, err |-> "none"]
Err(w, msg) == [w |-> w, err |-> msg]

\* OstreeTarWriter::new
NewWriter(options) ==
    [options |-> options,
     out |-> << >>,
     wrote_initdirs |-> FALSE,
     wrote_dirtree |-> {},
     wrote_dirmeta |-> {},
     wrote_content |-> {},
     wrote_xattrs |-> {},
     assert_failed |-> FALSE]

filter_mode_keep(w, mode) == mode

\* The bitwise and of two naturals
RECURSIVE BitAnd(_, _)
BitAnd(a, b) ==
    IF a = 0 \/ b = 0 THEN 0
    ELSE (a % 2) * (b % 2) + 2 * BitAnd(a \div 2, b \div 2)

\* Convert the ostree mode to tar mode: mode & !libc::S_IFMT but in format 0
filter_mode(w, mode) ==
    IF w.options.format_version = 0
    THEN mode
    ELSE mode - BitAnd(mode, S_IFMT)

\* The header of a directory entry with default permissions (root/root 0755)
DefaultDirEntry(path) == Entry("Directory", path, 0, 0, 493, 0, << >>, << >>)

append_default_dir(w, path) == Emit(w, DefaultDirEntry(path))

append_default_data(w, path, data) ==
    Emit(w, Entry("Regular", path, 0, 0, 420, Len(data), << >>, data))

append_default_hardlink(w, path, link_target) ==
    Emit(w, Entry("Link", path, 0, 0, 420, 0, link_target, << >>))

\* for each path of dirs, in order, append_default_dir
AppendDirs(w, dirs) ==
    [w EXCEPT !.out = @ \o [i \in 1..Len(dirs) |-> DefaultDirEntry(dirs[i])]]

\* objdir.ancestors(), reversed, without "" and "/"
ParentDirs ==
    LET objdir == OSTREEDIR \o P(<<"repo", "objects">>)
    IN [i \in 1..Len(objdir) |-> SubSeq(objdir, 1, i)]

ShardDirs ==
    [i \in 1..(ShardMax + 1) |->
        OSTREEDIR \o P(<<"repo", "objects">>) \o <<Hex2(i - 1)>>]

TmpDirs ==
    << OSTREEDIR \o P(<<"repo", "tmp">>),
       OSTREEDIR \o P(<<"repo", "tmp", "cache">>) >>

RefsDirs ==
    << OSTREEDIR \o P(<<"repo", "refs">>),
       OSTREEDIR \o P(<<"repo", "refs", "heads">>),
       OSTREEDIR \o P(<<"repo", "refs", "mirrors">>),
       OSTREEDIR \o P(<<"repo", "refs", "remotes">>) >>

XattrsDir == OSTREEDIR \o P(<<"repo", "xattrs">>)

ConfigPath(format_version) ==
    IF format_version = 0 THEN P(<<SYSROOT, "config">>)
    ELSE OSTREEDIR \o P(<<"repo", "config">>)

write_repo_structure_lax(w) ==
    IF w.wrote_initdirs THEN Ok(w)
    ELSE
      LET dirs == ParentDirs \o ShardDirs \o TmpDirs \o RefsDirs
                    \o (IF w.options.format_version = 0
                        THEN <<XattrsDir>> ELSE << >>)
          w1 == AppendDirs(w, dirs)
          w2 == append_default_data(w1, ConfigPath(w.options.format_version),
                                    REPO_CONFIG)
      IN Ok([w2 EXCEPT !.wrote_initdirs = TRUE])

\* Write the initial /sysroot/ostree/repo structure.
write_repo_structure(w) ==
    IF w.wrote_initdirs THEN Ok(w)
    ELSE
      LET dirs == ParentDirs \o ShardDirs \o TmpDirs \o RefsDirs
                    \o (IF w.options.format_version = 0
                        THEN <<XattrsDir>> ELSE << >>)
          w1 == AppendDirs(w, dirs)
      IN IF w.options.format_version \notin {0, 1}
         THEN Err(w1, "Unsupported ostree tar format version")
         ELSE LET w2 == append_default_data(
                            w1, ConfigPath(w.options.format_version),
                            REPO_CONFIG)
              IN Ok([w2 EXCEPT !.wrote_initdirs = TRUE])

\* The serialized variant of a metadata object (v.data_as_bytes()).
ObjectData(objtype, checksum) == <<objtype>> \o checksum

append(w, objtype, checksum) ==
    IF objtype \in {"Commit", "CommitMeta"}
    THEN append_default_data(w, object_path(objtype, checksum),
                             ObjectData(objtype, checksum))
    ELSE
      LET set == IF objtype = "DirTree" THEN w.wrote_dirtree
                 ELSE w.wrote_dirmeta
      IN IF checksum \in set THEN w
         ELSE
           LET w1 == IF objtype = "DirTree"
                     THEN [w EXCEPT !.wrote_dirtree = @ \cup {checksum}]
                     ELSE [w EXCEPT !.wrote_dirmeta = @ \cup {checksum}]
           IN append_default_data(w1, object_path(objtype, checksum),
                                  ObjectData(objtype, checksum))

\* Export xattrs to the tar stream, return whether content was written.
\* The membership test is on the blob's digest, the insertion is of the
\* file's checksum; assert_failed records a failed debug_assert!(inserted).
append_xattrs(w, checksum, xattrs_data) ==
    IF xattrs_data = << >> /\ w.options.format_version = 0
    THEN [w |-> w, err |-> "none", wrote |-> FALSE]
    ELSE
      LET xattrs_checksum == Sha256Hex(xattrs_data)
          fresh == xattrs_checksum \notin w.wrote_xattrs
          inserted == checksum \notin w.wrote_xattrs
          w1 == IF fresh
                THEN [w EXCEPT !.wrote_xattrs = @ \cup {checksum},
                               !.assert_failed = @ \/ ~inserted]
                ELSE w
      IN IF w.options.format_version = 0
         THEN LET path == v0_xattrs_path(xattrs_checksum)
                  w2 == IF fresh
                        THEN append_default_data(w1, path, xattrs_data)
                        ELSE w1
              IN [w |-> append_default_hardlink(
                            w2, v0_xattrs_object_path(checksum), path),
                  err |-> "none", wrote |-> TRUE]
         ELSE IF w.options.format_version = 1
         THEN LET path == v1_xattrs_object_path(xattrs_checksum)
                  w2 == IF fresh
                        THEN append_default_data(w1, path, xattrs_data)
                        ELSE w1
              IN [w |-> append_default_hardlink(
                            w2, v1_xattrs_link_object_path(checksum), path),
                  err |-> "none", wrote |-> TRUE]
         ELSE [w |-> w, err |-> "Unknown format version", wrote |-> FALSE]

\* The file content read from the store's input stream.
FileData(checksum) == <<"content">> \o checksum

\* The regular-file or symlink entry of a content object (lines 364-394).
ContentEntry(w, checksum) ==
    LET meta == FileMeta(checksum)
        path == object_path("File", checksum)
        mode == filter_mode(w, meta.mode)
    IN IF meta.file_type = "Regular"
       THEN Entry("Regular", path, meta.uid, meta.gid, mode, meta.size,
                  << >>, FileData(checksum))
       ELSE Entry("Symlink", path, meta.uid, meta.gid, mode, 0,
                  <<meta.symlink_target>>, << >>)

\* The header returned for the hard link to the object: size 0.
TargetHeader(w, checksum) ==
    LET meta == FileMeta(checksum)
    IN [uid |-> meta.uid, gid |-> meta.gid,
        mode |-> filter_mode(w, meta.mode), size |-> 0]

append_content_xattrs_last(w, checksum, xattrs_data) ==
    LET path == object_path("File", checksum)
        h == TargetHeader(w, checksum)
    IN IF checksum \in w.wrote_content
       THEN [w |-> w, err |-> "none", path |-> path, h |-> h]
       ELSE
         LET w1 == [w EXCEPT !.wrote_content = @ \cup {checksum}]
             w2 == Emit(w1, ContentEntry(w1, checksum))
             x == append_xattrs(w2, checksum, xattrs_data)
         IN [w |-> x.w, err |-> x.err, path |-> path, h |-> h]

\* append_content that exports the attributes of content written before
append_content_always_xattrs(w, checksum, xattrs_data) ==
    LET path == object_path("File", checksum)
        h == TargetHeader(w, checksum)
        x == append_xattrs(w, checksum, xattrs_data)
    IN IF x.err # "none"
       THEN [w |-> x.w, err |-> x.err, path |-> path, h |-> h]
       ELSE IF checksum \in w.wrote_content
       THEN [w |-> x.w, err |-> "none", path |-> path, h |-> h]
       ELSE [w |-> Emit([x.w EXCEPT !.wrote_content = @ \cup {checksum}],
                        ContentEntry(x.w, checksum)),
             err |-> "none", path |-> path, h |-> h]

\* Write a content object, returning the path/header that should be used
\* as a hard link to it in the target path.
append_content(w, checksum, xattrs_data) ==
    LET path == object_path("File", checksum)
        h == TargetHeader(w, checksum)
    IN IF checksum \in w.wrote_content
       THEN [w |-> w, err |-> "none", path |-> path, h |-> h]
       ELSE
         LET w1 == [w EXCEPT !.wrote_content = @ \cup {checksum}]
             x == append_xattrs(w1, checksum, xattrs_data)
         IN IF x.err # "none"
            THEN [w |-> x.w, err |-> x.err, path |-> path, h |-> h]
            ELSE [w |-> Emit(x.w, ContentEntry(x.w, checksum)),
                  err |-> "none", path |-> path, h |-> h]

\* Write a directory using the provided metadata.
append_dir(w, dirpath, meta) ==
    Emit(w, Entry("Directory", dirpath, meta.uid, meta.gid,
                  filter_mode(w, meta.mode), 0, << >>, << >>))

\* The iteration that writes no hardlink for content written before
dirtree_file_skip_dup(w, dirpath, file, xattrs_data) ==
    LET r == append_content(w, file[2], xattrs_data)
        subpath == map_path(join(dirpath, file[1]))
    IN IF r.err # "none" THEN Err(r.w, r.err)
       ELSE IF file[2] \in w.wrote_content THEN Ok(r.w)
       ELSE Ok(Emit(r.w, Entry("Link", subpath, r.h.uid, r.h.gid, r.h.mode,
                               r.h.size, r.path, << >>)))

\* One iteration of append_dirtree's loop over the files.
dirtree_file(w, dirpath, file, xattrs_data) ==
    LET r == append_content(w, file[2], xattrs_data)
        subpath == map_path(join(dirpath, file[1]))
    IN IF r.err # "none" THEN Err(r.w, r.err)
       ELSE Ok(Emit(r.w, Entry("Link", subpath, r.h.uid, r.h.gid, r.h.mode,
                               r.h.size, r.path, << >>)))

\* The iteration that skips no directory
dirtree_dir_noskip(w, dirpath, is_root, item) ==
    LET w1 == append(w, "DirMeta", item[3])
        subpath == map_path(join(dirpath, item[1]))
    IN [w |-> append_dir(w1, subpath, DirMetaParsed(item[3])),
        recurse |-> TRUE, subpath |-> subpath]

dirtree_dir_anylevel(w, dirpath, is_root, item) ==
    LET w1 == append(w, "DirMeta", item[3])
        subpath == map_path(join(dirpath, item[1]))
    IN IF item[1] = SYSROOT
       THEN [w |-> w1, recurse |-> FALSE, subpath |-> subpath]
       ELSE [w |-> append_dir(w1, subpath, DirMetaParsed(item[3])),
             recurse |-> TRUE, subpath |-> subpath]

\* One iteration of append_dirtree's loop over the subdirectories, up to
\* the recursive call.
dirtree_dir(w, dirpath, is_root, item) ==
    LET w1 == append(w, "DirMeta", item[3])
        subpath == map_path(join(dirpath, item[1]))
    IN IF is_root /\ item[1] = SYSROOT
       THEN [w |-> w1, recurse |-> FALSE, subpath |-> subpath]
       ELSE [w |-> append_dir(w1, subpath, DirMetaParsed(item[3])),
             recurse |-> TRUE, subpath |-> subpath]

write_commit_objects_first(w, checksum) ==
    LET commit == CommitOf(checksum)
        w2 == append(w, "Commit", checksum)
        w3 == IF commit.commitmeta THEN append(w2, "CommitMeta", checksum)
              ELSE w2
        w4 == append(w3, "DirMeta", commit.metadata)
        w5 == append_dir(w4, P(<<".">>), DirMetaParsed(commit.metadata))
    IN write_repo_structure(w5)

\* write_commit up to its call of append_dirtree on the root.
write_commit(w, checksum) ==
    LET commit == CommitOf(checksum)
        w1 == append_dir(w, P(<<".">>), DirMetaParsed(commit.metadata))
        r == write_repo_structure(w1)
    IN IF r.err # "none" THEN r
       ELSE
         LET w2 == append(r.w, "Commit", checksum)
             w3 == IF commit.commitmeta
                   THEN append(w2, "CommitMeta", checksum)
                   ELSE w2
         IN Ok(append(w3, "DirMeta", commit.metadata))

Frame(dirpath, checksum, is_root) ==
    [dirpath |-> dirpath, checksum |-> checksum, is_root |-> is_root,
     entered |-> FALSE, fi |-> 1, di |-> 1]

NoExport == [format_version |-> -1, out |-> << >>, result |-> "none"]

Top == stack[Len(stack)]
SetTop(f) == [stack EXCEPT ![Len(stack)] = f]

(***************************************************************************)
(* The export: export_commit and the steps of the recursive tree walk.     *)
(***************************************************************************)
\* export_commit(repo, rev, out, options): a new writer, then write_commit.
ExportCommit(format_version) ==
    /\ pc \in {"idle", "done", "failed"}
    /\ nexports < MaxExports
    /\ LET r == write_commit(
                    NewWriter([format_version |-> format_version]), rev)
       IN /\ writer' = r.w
          /\ error' = r.err
          /\ pc' = IF r.err = "none" THEN "walk" ELSE "failed"
          /\ stack' = IF r.err = "none"
                      THEN <<Frame(P(<<".">>), CommitOf(rev).contents, TRUE)>>
                      ELSE << >>
    /\ prev' = IF pc = "idle" THEN NoExport
               ELSE [format_version |-> writer.options.format_version,
                     out |-> writer.out, result |-> pc]
    /\ nexports' = nexports + 1
    /\ UNCHANGED <<xattrs, rev>>
    /\ UNCHANGED <<importVars, auxVars>>

\* append_dirtree: load the DirTree object and append it.
DirtreeEnter ==
    /\ pc = "walk"
    /\ ~Top.entered
    /\ writer' = append(writer, "DirTree", Top.checksum)
    /\ stack' = SetTop([Top EXCEPT !.entered = TRUE])
    /\ UNCHANGED <<xattrs, pc, rev, error, prev, nexports>>
    /\ UNCHANGED <<importVars, auxVars>>

\* append_dirtree: one file entry of the directory.
DirtreeFile ==
    /\ pc = "walk"
    /\ Top.entered
    /\ Top.fi <= Len(DirTreeOf(Top.checksum).files)
    /\ LET file == DirTreeOf(Top.checksum).files[Top.fi]
           r == dirtree_file(writer, Top.dirpath, file, xattrs[file[2]])
       IN /\ writer' = r.w
          /\ error' = r.err
          /\ pc' = IF r.err = "none" THEN "walk" ELSE "failed"
          /\ stack' = IF r.err = "none"
                      THEN SetTop([Top EXCEPT !.fi = @ + 1])
                      ELSE << >>
    /\ UNCHANGED <<xattrs, rev, prev, nexports>>
    /\ UNCHANGED <<importVars, auxVars>>

\* append_dirtree: one subdirectory entry, and the call into it.
DirtreeDir ==
    /\ pc = "walk"
    /\ Top.entered
    /\ Top.fi > Len(DirTreeOf(Top.checksum).files)
    /\ Top.di <= Len(DirTreeOf(Top.checksum).dirs)
    /\ LET item == DirTreeOf(Top.checksum).dirs[Top.di]
           r == dirtree_dir(writer, Top.dirpath, Top.is_root, item)
           advanced == SetTop([Top EXCEPT !.di = @ + 1])
       IN /\ writer' = r.w
          /\ stack' = IF r.recurse
                      THEN Append(advanced, Frame(r.subpath, item[2], FALSE))
                      ELSE advanced
    /\ UNCHANGED <<xattrs, pc, rev, error, prev, nexports>>
    /\ UNCHANGED <<importVars, auxVars>>

\* append_dirtree returns; the return of the root call ends write_commit
\* and export_commit finishes the archive.
DirtreeReturn ==
    /\ pc = "walk"
    /\ Top.entered
    /\ Top.fi > Len(DirTreeOf(Top.checksum).files)
    /\ Top.di > Len(DirTreeOf(Top.checksum).dirs)
    /\ stack' = SubSeq(stack, 1, Len(stack) - 1)
    /\ pc' = IF Len(stack) = 1 THEN "done" ELSE "walk"
    /\ UNCHANGED <<xattrs, writer, rev, error, prev, nexports>>
    /\ UNCHANGED <<importVars, auxVars>>


(***************************************************************************)
(* Definitions used to state the properties of the export.                 *)
(***************************************************************************)
Format == writer.options.format_version

\* The indices of the entries of archive `out` written at path p
At(out, p) == {i \in DOMAIN out : out[i].path = p}

XattrDigests == {Sha256Hex(b) : b \in XattrBlobs}

\* The path of the attribute blob with digest x, and of the file's link to
\* it, in a format
BlobPath(format_version, x) ==
    IF format_version = 0 THEN v0_xattrs_path(x) ELSE v1_xattrs_object_path(x)
LinkPath(format_version, f) ==
    IF format_version = 0 THEN v0_xattrs_object_path(f)
    ELSE v1_xattrs_link_object_path(f)

\* The paths of the four deduplicated kinds of object entry
DedupPaths(format_version) ==
    {object_path("DirTree", c) : c \in DirTrees}
      \cup {object_path("DirMeta", c) : c \in DirMetas}
      \cup {object_path("File", c) : c \in Files}
      \cup {BlobPath(format_version, x) : x \in XattrDigests}

\* The paths of the Attribute Codec in a format
AttrPaths(format_version) ==
    {BlobPath(format_version, x) : x \in XattrDigests}
      \cup {LinkPath(format_version, f) : f \in Files}
      \cup (IF format_version = 0 THEN {XattrsDir} ELSE {})

\* The paths of the entries of store objects
StoreObjectPaths ==
    {object_path(t, c) :
        t \in {"Commit", "CommitMeta", "DirTree", "DirMeta", "File"},
        c \in Commits \cup DirTrees \cup DirMetas \cup Files}
      \cup AttrPaths(0) \cup AttrPaths(1)

\* The paths of the scaffolding of a format
ScaffoldPaths(format_version) ==
    {ParentDirs[i] : i \in DOMAIN ParentDirs}
      \cup {ShardDirs[i] : i \in DOMAIN ShardDirs}
      \cup {TmpDirs[i] : i \in DOMAIN TmpDirs}
      \cup {RefsDirs[i] : i \in DOMAIN RefsDirs}
      \cup (IF format_version = 0 THEN {XattrsDir} ELSE {})
      \cup {ConfigPath(format_version)}

\* What the store holds below a directory tree: every DirTree, DirMeta and
\* File object the tree references, transitively.  With skip_sysroot, a
\* child directory of `t` itself that is named sysroot counts for its
\* DirMeta only.
RECURSIVE Reachable(_, _)
Reachable(t, skip_sysroot) ==
    LET tree == DirTreeOf(t)
        below(item) ==
            IF skip_sysroot /\ item[1] = SYSROOT
            THEN [trees |-> {}, metas |-> {item[3]}, files |-> {}]
            ELSE LET r == Reachable(item[2], FALSE)
                 IN [trees |-> r.trees, metas |-> r.metas \cup {item[3]},
                     files |-> r.files]
        subs == {below(tree.dirs[i]) : i \in DOMAIN tree.dirs}
    IN [trees |-> {t} \cup UNION {r.trees : r \in subs},
        metas |-> UNION {r.metas : r \in subs},
        files |-> {tree.files[i][2] : i \in DOMAIN tree.files}
                    \cup UNION {r.files : r \in subs}]

\* Archive `out` holds the object entries of the commit and of the objects
\* `objs` at their canonical paths
HoldsObjects(out, commit_checksum, objs) ==
    /\ At(out, object_path("Commit", commit_checksum)) # {}
    /\ At(out, object_path("DirMeta", CommitOf(commit_checksum).metadata)) # {}
    /\ \A t \in objs.trees :
          \E i \in At(out, object_path("DirTree", t)) :
             out[i].type = "Regular" /\ out[i].data = ObjectData("DirTree", t)
    /\ \A m \in objs.metas :
          \E i \in At(out, object_path("DirMeta", m)) :
             out[i].type = "Regular" /\ out[i].data = ObjectData("DirMeta", m)
    /\ \A f \in objs.files :
          \E i \in At(out, object_path("File", f)) :
             out[i].type = IF FileMeta(f).file_type = "Regular"
                           THEN "Regular" ELSE "Symlink"

\* C1: in one export, the object entry of each of the four deduplicated
\* kinds (DirTree, DirMeta, File content, attribute blob) is written to the
\* archive at most once for every checksum.
C1_EachObjectAtMostOnce ==
    \A p \in DedupPaths(Format) : Cardinality(At(writer.out, p)) <= 1

HeadLen(format_version, commit_checksum) ==
    1 + Cardinality(ScaffoldPaths(format_version)) + 2
      + (IF CommitOf(commit_checksum).commitmeta THEN 1 ELSE 0)

\* C3: the root directory entry "./" is the first entry of the archive,
\* the scaffolding entries follow it, then the Commit object, then the
\* detached signature object if there is one, then the root DirMeta object,
\* and every entry of the tree walk comes after all of these.
C3_HeadOrder ==
    LET out == writer.out
        scaffold == ScaffoldPaths(Format)
        n == Cardinality(scaffold)
        sig == IF CommitOf(rev).commitmeta THEN 1 ELSE 0
        head == n + 3 + sig
    IN /\ pc # "idle" =>
            /\ Len(out) >= 1
            /\ out[1].path = P(<<".">>)
            /\ out[1].type = "Directory"
            /\ {out[i].path : i \in 2..Len(out)} \cap scaffold
                 = {out[i].path : i \in 2..(IF Len(out) < n + 1
                                            THEN Len(out) ELSE n + 1)}
       /\ pc \in {"walk", "done"} =>
            /\ Len(out) >= head
            /\ {out[i].path : i \in 2..(n + 1)} = scaffold
            /\ out[n + 2].path = object_path("Commit", rev)
            /\ sig = 1 => out[n + 3].path = object_path("CommitMeta", rev)
            /\ out[head].path = object_path("DirMeta", CommitOf(rev).metadata)
            /\ {out[j].path : j \in (head + 1)..Len(out)}
                 \cap (scaffold
                         \cup {P(<<".">>),
                               object_path("Commit", rev),
                               object_path("CommitMeta", rev),
                               object_path("DirMeta", CommitOf(rev).metadata)})
                 = {}

C3_Witness ==
    /\ pc = "done"
    /\ CommitOf(rev).commitmeta
    /\ Len(writer.out) > HeadLen(Format, rev)
    /\ Len(stack) = 0

\* C4: for every File object whose attribute entries are written (every
\* file in format 1; the files with a non-empty blob in format 0, where an
\* empty blob writes nothing), the attribute blob entry and the file's
\* attribute link entry both come before the file's content entry.
C4_XattrsBeforeContent ==
    LET out == writer.out
    IN \A f \in Files :
          \A k \in At(out, object_path("File", f)) :
             IF Format = 0 /\ xattrs[f] = << >>
             THEN At(out, LinkPath(0, f)) = {}
             ELSE /\ \E i \in At(out, BlobPath(Format, Sha256Hex(xattrs[f]))) :
                        /\ i < k
                        /\ out[i].type = "Regular"
                        /\ out[i].data = xattrs[f]
                  /\ \E j \in At(out, LinkPath(Format, f)) :
                        /\ j < k
                        /\ out[j].type = "Link"
                        /\ out[j].link
                             = BlobPath(Format, Sha256Hex(xattrs[f]))

C4_Witness ==
    /\ pc = "done"
    /\ Format = 0
    /\ \E f, g \in Files :
          /\ xattrs[f] = << >>
          /\ xattrs[g] # << >>
          /\ At(writer.out, object_path("File", f)) # {}
          /\ At(writer.out, object_path("File", g)) # {}
          /\ At(writer.out, LinkPath(0, g)) # {}

\* C5: an export whose format_version is not 0 or 1 fails with a
\* configuration error and never succeeds, and the error is raised before
\* any entry of a store object is written.
C5_BadFormatFails ==
    /\ (pc # "idle" /\ Format \notin {0, 1}) =>
          /\ pc = "failed"
          /\ error = "Unsupported ostree tar format version"
          /\ \A i \in DOMAIN writer.out :
                /\ writer.out[i].path \notin StoreObjectPaths
                /\ writer.out[i].type = "Directory"
    /\ prev.format_version \notin {-1, 0, 1} => prev.result = "failed"

C5_Witness ==
    /\ pc = "failed"
    /\ Format = 2
    /\ Len(writer.out) > 1
    /\ nexports = 1

\* The archive without the entries of the Attribute Codec
StripAttrs(out, format_version) ==
    SelectSeq(out, LAMBDA e : e.path \notin AttrPaths(format_version))

\* mode & !S_IFMT
ClearIFMT(mode) == (mode \div 65536) * 65536 + (mode % 4096)

\* Two successful exports of the commit, in format 0 and in format 1
BothFormats ==
    /\ pc = "done"
    /\ prev.result = "done"
    /\ {prev.format_version, Format} = {0, 1}

Archive0 == IF Format = 0 THEN writer.out ELSE prev.out
Archive1 == IF Format = 1 THEN writer.out ELSE prev.out

\* C6 as claimed: without the attribute blob entries, the attribute link
\* entries and the shared attributes directory of format 0, the format-0
\* and the format-1 archive of a commit are the same sequence of entries.
C6_SameButAttrs ==
    BothFormats => StripAttrs(Archive0, 0) = StripAttrs(Archive1, 1)

\* C6 amended: without the Attribute Codec entries the two archives have
\* the same length and agree entry by entry on the type, owner, size, link
\* target and content; on the path except for the repository configuration
\* file (sysroot/config in format 0, sysroot/ostree/repo/config in format
\* 1); and on the mode except that format 0 keeps the file type bits that
\* format 1 clears.
C6_SameButAttrsConfigMode ==
    BothFormats =>
        LET a == StripAttrs(Archive0, 0)
            b == StripAttrs(Archive1, 1)
        IN /\ Len(a) = Len(b)
           /\ \A i \in DOMAIN a :
                 /\ a[i].type = b[i].type
                 /\ a[i].uid = b[i].uid
                 /\ a[i].gid = b[i].gid
                 /\ a[i].size = b[i].size
                 /\ a[i].link = b[i].link
                 /\ a[i].data = b[i].data
                 /\ b[i].mode = ClearIFMT(a[i].mode)
                 /\ \/ a[i].path = b[i].path
                    \/ /\ a[i].path = ConfigPath(0)
                       /\ b[i].path = ConfigPath(1)
           /\ \E i \in DOMAIN a : a[i].path = ConfigPath(0)
           /\ \E i \in DOMAIN a : a[i].mode # b[i].mode

C6_Witness ==
    /\ BothFormats
    /\ Len(StripAttrs(Archive0, 0)) < Len(Archive0)
    /\ Len(StripAttrs(Archive1, 1)) < Len(Archive1)
    /\ \E f \in Files :
          xattrs[f] = << >> /\ At(Archive1, object_path("File", f)) # {}

(***************************************************************************)
(* The import pipeline (ostree-ext/lib/src/container/import.rs).           *)
(***************************************************************************)
\* tokio::sync::mpsc::channel(2)
ChanCap == 2

Sha256Prefix == <<"s", "h", "a", "2", "5", "6", ":">>
Sha512Prefix == <<"s", "h", "a", "5", "1", "2", ":">>

BlobId == <<"b", "1">>
OtherId == <<"c", "2">>

MediaTypes == {"DOCKER_TYPE_LAYER", "OCI_TYPE_LAYER", "OCI_TYPE_CONFIG"}
Digests == {Sha256Prefix \o BlobId, Sha256Prefix \o OtherId,
            Sha512Prefix \o BlobId}
Layers == [media_type : MediaTypes, digest : Digests]

\* The sequences over S of length at most n
SeqsUpTo(S, n) == UNION {[1..k -> S] : k \in 0..n}

Manifests == SeqsUpTo(Layers, MaxLayers)

\* str::strip_prefix
StripPrefix(str, prefix) ==
    IF Len(str) >= Len(prefix) /\ SubSeq(str, 1, Len(prefix)) = prefix
    THEN [some |-> TRUE, rest |-> SubSeq(str, Len(prefix) + 1, Len(str))]
    ELSE [some |-> FALSE, rest |-> << >>]

IsLayerType(layer) ==
    layer.media_type \in {"DOCKER_TYPE_LAYER", "OCI_TYPE_LAYER"}

BlobOk(hash) == [ok |-> TRUE, hash |-> hash, err |-> "none"]
BlobErr(msg) == [ok |-> FALSE, hash |-> << >>, err |-> msg]

find_layer_blobid_first(mf) ==
    LET layers == SelectSeq(mf, IsLayerType)
    IN IF Len(layers) >= 1
       THEN LET hash == StripPrefix(layers[1].digest, Sha256Prefix)
            IN IF hash.some THEN BlobOk(hash.rest)
               ELSE BlobErr("Expected sha256: in digest")
       ELSE BlobErr("No layers found")

\* The digest, without its sha256: prefix, of the one layer of manifest mf
\* that has a layer media type
find_layer_blobid(mf) ==
    LET layers == SelectSeq(mf, IsLayerType)
        n == Len(layers)
    IN IF n >= 1
       THEN IF n > 1 THEN BlobErr("Expected 1 layer")
            ELSE LET hash == StripPrefix(layers[1].digest, Sha256Prefix)
                 IN IF hash.some THEN BlobOk(hash.rest)
                    ELSE BlobErr("Expected sha256: in digest")
       ELSE BlobErr("No layers found")

(***************************************************************************)
(* The archive of layers the copy subprocess writes into the named pipe.   *)
(***************************************************************************)
TarName(id) == id \o <<".", "tar">>

TarEntry(path, type, link, data) ==
    [path |-> path, type |-> type, link |-> link, data |-> data]

E_target == TarEntry(<<TarName(BlobId)>>, "Regular", << >>, <<1, 2>>)
E_other == TarEntry(<<TarName(OtherId)>>, "Regular", << >>, <<3>>)
E_json == TarEntry(<< <<"manifest", ".", "json">> >>, "Regular", << >>, <<4>>)
E_linkok ==
    TarEntry(<<BlobId, <<"layer", ".", "tar">> >>, "Symlink",
             << <<"..">>, TarName(BlobId) >>, << >>)
E_linkbad ==
    TarEntry(<<OtherId, <<"layer", ".", "tar">> >>, "Symlink",
             << <<"..">>, TarName(OtherId) >>, << >>)
E_aliasbad ==
    TarEntry(<<OtherId, <<"alias", ".", "tar">> >>, "Symlink",
             << <<"..">>, TarName(OtherId) >>, << >>)
E_dir == TarEntry(<< <<"d", ".", "tar">> >>, "Directory", << >>, << >>)

EntryPool == {E_target, E_other, E_json, E_linkok, E_linkbad, E_aliasbad,
              E_dir}

Archives == SeqsUpTo(EntryPool, MaxEntries)

\* format!("../{}.tar", blobid)
BlobSymlinkTarget(blobid) == << <<"..">>, TarName(blobid) >>

\* Utf8Path::file_name
FileName(path) == path[Len(path)]

\* Utf8Path::extension: what follows the last "." of the file name
Extension(path) ==
    LET name == FileName(path)
        dots == {i \in DOMAIN name : name[i] = "."}
    IN IF dots = {} THEN << >>
       ELSE LET last == CHOOSE i \in dots : \A j \in dots : j <= i
            IN IF last = 1 THEN << >>
               ELSE SubSeq(name, last + 1, Len(name))

\* The classification that validates a symlink of any file name
Classify_any_name(entry, blob_symlink_target) ==
    IF Extension(entry.path) # <<"tar">> THEN "skip"
    ELSE IF entry.type = "Symlink"
    THEN IF entry.link # blob_symlink_target THEN "badlink" ELSE "skip"
    ELSE IF entry.type = "Regular" THEN "stream"
    ELSE "skip"

Classify_skip_regular(entry, blob_symlink_target) ==
    IF Extension(entry.path) # <<"tar">> THEN "skip"
    ELSE IF entry.type = "Symlink"
    THEN IF FileName(entry.path) = <<"layer", ".", "tar">>
            /\ entry.link # blob_symlink_target
         THEN "badlink" ELSE "skip"
    ELSE "skip"

\* What find_layer_tar_sync does with an entry met before the layer is
\* found: "skip" it, "stream" its contents, or fail on a "badlink".
Classify(entry, blob_symlink_target) ==
    IF Extension(entry.path) # <<"tar">> THEN "skip"
    ELSE IF entry.type = "Symlink"
    THEN IF FileName(entry.path) = <<"layer", ".", "tar">>
            /\ entry.link # blob_symlink_target
         THEN "badlink" ELSE "skip"
    ELSE IF entry.type = "Regular" THEN "stream"
    ELSE "skip"

WorkerReturn_drop(found) ==
    IF found THEN [result |-> "ok", pipe_open |-> FALSE]
    ELSE [result |-> "Failed to find layer", pipe_open |-> FALSE]

\* The end of find_layer_tar_sync: Ok(archive.into_inner()) hands the pipe
\* back to the caller, an error drops it.
WorkerReturn(found) ==
    IF found THEN [result |-> "ok", pipe_open |-> TRUE]
    ELSE [result |-> "Failed to find layer", pipe_open |-> FALSE]


\* The units the subprocess writes: the entries, the end-of-archive marker,
\* and the blocks that follow the marker.
StreamLen == Len(archive) + 2

Min(a, b) == IF a < b THEN a ELSE b

NewWorker ==
    [state |-> "next", found |-> FALSE, cur |-> 0, rest |-> << >>,
     chunk |-> << >>, done |-> FALSE, scanned |-> 0, result |-> "none"]

\* The state in which nothing of the pipeline runs
ImportIdle ==
    /\ manifest = << >>
    /\ layerid = BlobErr("pending")
    /\ archive = << >>
    /\ proc = [state |-> "ok", pos |-> 3]
    /\ pipe = << >>
    /\ pipe_open = FALSE
    /\ epipe = FALSE
    /\ worker = [NewWorker EXCEPT !.state = "returned"]
    /\ chan = << >>
    /\ consumer = [state |-> "dropped", received |-> << >>]
    /\ waiter = "ok"
    /\ joined = "ok"

\* The state in which no export runs
ExportIdle ==
    /\ xattrs = [f \in Files |-> << >>]
    /\ rev = K1
    /\ writer = NewWriter([format_version |-> 0])
    /\ stack = << >>
    /\ pc = "idle"
    /\ error = "none"
    /\ prev = NoExport
    /\ nexports = MaxExports

\* The state in which no import runs
OrchIdle ==
    /\ ipc = "idle"
    /\ sigverify = "ContainerPolicyAllowInsecure"
    /\ policy = "unqueried"
    /\ tempdir = "none"
    /\ tarimport = "none"
    /\ result = [ok |-> FALSE, error |-> "none"]

\* The state in which no ProgressReader reads
ProgressIdle ==
    /\ preader = [progress |-> "None", reader |-> << >>]
    /\ watch = [state |-> 0, receivers |-> FALSE]
    /\ polls = << >>

\* The state in which no path function was called
PathIdle == pathcalls = << >>

AuxIdle == OrchIdle /\ ProgressIdle /\ PathIdle

(***************************************************************************)
(* Layer selection.                                                        *)
(***************************************************************************)
FindLayerBlobid ==
    /\ layerid.err = "pending"
    /\ layerid' = find_layer_blobid(manifest)
    /\ UNCHANGED <<manifest, archive, proc, pipe, pipe_open, epipe, worker,
                   chan, consumer, waiter, joined>>
    /\ UNCHANGED <<exportVars, auxVars>>

InitBlobid ==
    /\ ExportIdle
    /\ AuxIdle
    /\ manifest \in Manifests
    /\ layerid = BlobErr("pending")
    /\ archive = << >>
    /\ proc = [state |-> "ok", pos |-> 3]
    /\ pipe = << >>
    /\ pipe_open = FALSE
    /\ epipe = FALSE
    /\ worker = [NewWorker EXCEPT !.state = "returned"]
    /\ chan = << >>
    /\ consumer = [state |-> "dropped", received |-> << >>]
    /\ waiter = "ok"
    /\ joined = "ok"

NextBlobid == FindLayerBlobid

SpecBlobid == InitBlobid /\ [][NextBlobid]_vars

(***************************************************************************)
(* fetch_layer: the copy subprocess writing the named pipe, the worker     *)
(* find_layer_tar_sync reading it, the consumer of the layer's bytes, and  *)
(* the join of the worker with the wait for the subprocess.                *)
(***************************************************************************)
\* The subprocess writes the next unit into the pipe.
ProcWrite ==
    /\ proc.state = "running"
    /\ proc.pos <= StreamLen
    /\ pipe_open
    /\ Len(pipe) < PipeCap
    /\ pipe' = Append(pipe, proc.pos)
    /\ proc' = [proc EXCEPT !.pos = @ + 1]
    /\ UNCHANGED <<manifest, layerid, archive, pipe_open, epipe, worker,
                   chan, consumer, waiter, joined>>
    /\ UNCHANGED <<exportVars, auxVars>>

\* The subprocess writes into the pipe whose read side is closed, and fails.
ProcEpipe ==
    /\ proc.state = "running"
    /\ proc.pos <= StreamLen
    /\ ~pipe_open
    /\ proc' = [proc EXCEPT !.state = "failed"]
    /\ epipe' = TRUE
    /\ UNCHANGED <<manifest, layerid, archive, pipe, pipe_open, worker,
                   chan, consumer, waiter, joined>>
    /\ UNCHANGED <<exportVars, auxVars>>

\* The subprocess has written everything and exits with success.
ProcExit ==
    /\ proc.state = "running"
    /\ proc.pos > StreamLen
    /\ proc' = [proc EXCEPT !.state = "ok"]
    /\ UNCHANGED <<manifest, layerid, archive, pipe, pipe_open, epipe,
                   worker, chan, consumer, waiter, joined>>
    /\ UNCHANGED <<exportVars, auxVars>>

\* The subprocess exits with failure.
ProcFail ==
    /\ proc.state = "running"
    /\ proc' = [proc EXCEPT !.state = "failed"]
    /\ UNCHANGED <<manifest, layerid, archive, pipe, pipe_open, epipe,
                   worker, chan, consumer, waiter, joined>>
    /\ UNCHANGED <<exportVars, auxVars>>

\* find_layer_tar_sync: the next entry of archive.entries(), up to the read
\* loop of a regular entry or to the return of the function.  The iterator
\* ends at the end-of-archive marker or at the end of the stream.
WorkerNext ==
    /\ worker.state = "next"
    /\ pipe # << >> \/ proc.state # "running"
    /\ IF pipe = << >> \/ Head(pipe) > Len(archive)
       THEN LET r == WorkerReturn(worker.found)
            IN /\ worker' = [worker EXCEPT !.state = "returned",
                                           !.result = r.result]
               /\ pipe_open' = r.pipe_open
               /\ pipe' = IF pipe = << >> THEN pipe ELSE Tail(pipe)
       ELSE LET idx == Head(pipe)
                entry == archive[idx]
                what == IF worker.found THEN "skip"
                        ELSE Classify(entry,
                                      BlobSymlinkTarget(layerid.hash))
            IN /\ pipe' = Tail(pipe)
               /\ worker' =
                    IF what = "skip"
                    THEN [worker EXCEPT !.scanned = @ + 1]
                    ELSE IF what = "stream"
                    THEN [worker EXCEPT !.scanned = @ + 1,
                                        !.state = "read",
                                        !.cur = idx,
                                        !.rest = entry.data]
                    ELSE [worker EXCEPT !.scanned = @ + 1,
                                        !.state = "returned",
                                        !.result =
                                           "Found unexpected layer link"]
               /\ pipe_open' = (what # "badlink")
    /\ UNCHANGED <<manifest, layerid, archive, proc, epipe, chan, consumer,
                   waiter, joined>>
    /\ UNCHANGED <<exportVars, auxVars>>

\* find_layer_tar_sync: entry.read(&mut buf), at most MaxRead bytes, none at
\* the end of the entry.
WorkerRead ==
    /\ worker.state = "read"
    /\ \E n \in 0..Min(MaxRead, Len(worker.rest)) :
          /\ n = 0 <=> worker.rest = << >>
          /\ worker' = [worker EXCEPT
                           !.state = "send",
                           !.chunk = SubSeq(worker.rest, 1, n),
                           !.rest = SubSeq(worker.rest, n + 1,
                                           Len(worker.rest)),
                           !.done = (n = 0)]
    /\ UNCHANGED <<manifest, layerid, archive, proc, pipe, pipe_open, epipe,
                   chan, consumer, waiter, joined>>
    /\ UNCHANGED <<exportVars, auxVars>>

\* blocking_send that keeps waiting when the receiver is gone
WorkerSend_blocks_on_closed ==
    /\ worker.state = "send"
    /\ consumer.state # "dropped"
    /\ Len(chan) < ChanCap
    /\ chan' = Append(chan, worker.chunk)
    /\ worker' = IF worker.done
                 THEN [worker EXCEPT !.state = "next", !.found = TRUE,
                                     !.chunk = << >>]
                 ELSE [worker EXCEPT !.state = "read", !.chunk = << >>]
    /\ UNCHANGED <<manifest, layerid, archive, proc, pipe, pipe_open, epipe,
                   consumer, waiter, joined>>
    /\ UNCHANGED <<exportVars, auxVars>>

\* blocking_send whose failure is propagated as an error of the worker
WorkerSend_closed_is_error ==
    /\ worker.state = "send"
    /\ IF consumer.state = "dropped"
       THEN /\ worker' = [worker EXCEPT !.state = "returned",
                                        !.result = "Failed to find layer",
                                        !.chunk = << >>]
            /\ chan' = chan
            /\ pipe_open' = FALSE
       ELSE /\ Len(chan) < ChanCap
            /\ chan' = Append(chan, worker.chunk)
            /\ pipe_open' = pipe_open
            /\ worker' = IF worker.done
                         THEN [worker EXCEPT !.state = "next",
                                             !.found = TRUE,
                                             !.chunk = << >>]
                         ELSE [worker EXCEPT !.state = "read",
                                             !.chunk = << >>]
    /\ UNCHANGED <<manifest, layerid, archive, proc, pipe, epipe,
                   consumer, waiter, joined>>
    /\ UNCHANGED <<exportVars, auxVars>>

\* find_layer_tar_sync: tx_buf.blocking_send(r), which waits for room in the
\* channel and fails once the receiver is gone.
WorkerSend ==
    /\ worker.state = "send"
    /\ IF consumer.state = "dropped"
       THEN /\ worker' = [worker EXCEPT !.state = "next", !.found = TRUE,
                                        !.chunk = << >>]
            /\ chan' = chan
       ELSE /\ Len(chan) < ChanCap
            /\ chan' = Append(chan, worker.chunk)
            /\ worker' = IF worker.done
                         THEN [worker EXCEPT !.state = "next",
                                             !.found = TRUE,
                                             !.chunk = << >>]
                         ELSE [worker EXCEPT !.state = "read",
                                             !.chunk = << >>]
    /\ UNCHANGED <<manifest, layerid, archive, proc, pipe, pipe_open, epipe,
                   consumer, waiter, joined>>
    /\ UNCHANGED <<exportVars, auxVars>>

\* The consumer reads the next chunk of the stream.
ConsumerRecv ==
    /\ consumer.state = "reading"
    /\ chan # << >>
    /\ consumer' = [consumer EXCEPT !.received = @ \o Head(chan)]
    /\ chan' = Tail(chan)
    /\ UNCHANGED <<manifest, layerid, archive, proc, pipe, pipe_open, epipe,
                   worker, waiter, joined>>
    /\ UNCHANGED <<exportVars, auxVars>>

\* The consumer reaches the end of the stream: the channel is empty and its
\* sender, owned by the worker, is dropped.
ConsumerEof ==
    /\ consumer.state = "reading"
    /\ chan = << >>
    /\ worker.state = "returned"
    /\ consumer' = [consumer EXCEPT !.state = "eof"]
    /\ UNCHANGED <<manifest, layerid, archive, proc, pipe, pipe_open, epipe,
                   worker, chan, waiter, joined>>
    /\ UNCHANGED <<exportVars, auxVars>>

\* The consumer drops the stream before its end.
ConsumerDrop ==
    /\ consumer.state = "reading"
    /\ consumer' = [consumer EXCEPT !.state = "dropped"]
    /\ chan' = << >>
    /\ UNCHANGED <<manifest, layerid, archive, proc, pipe, pipe_open, epipe,
                   worker, waiter, joined>>
    /\ UNCHANGED <<exportVars, auxVars>>

\* fetch_layer's waiter: proc.wait_with_output() and the exit status.
WaiterDone ==
    /\ waiter = "pending"
    /\ proc.state # "running"
    /\ waiter' = proc.state
    /\ UNCHANGED <<manifest, layerid, archive, proc, pipe, pipe_open, epipe,
                   worker, chan, consumer, joined>>
    /\ UNCHANGED <<exportVars, auxVars>>

\* The join that drops the result of the waiter
JoinDone_ignore_waiter ==
    /\ joined = "pending"
    /\ worker.state = "returned"
    /\ waiter # "pending"
    /\ joined' = IF worker.result = "ok" THEN "ok" ELSE "failed"
    /\ pipe_open' = FALSE
    /\ UNCHANGED <<manifest, layerid, archive, proc, pipe, epipe, worker,
                   chan, consumer, waiter>>
    /\ UNCHANGED <<exportVars, auxVars>>

\* fetch_layer's worker: tokio::join!(worker, waiter), then the errors of
\* the two, and the pipe handed back by the worker is dropped.
JoinDone ==
    /\ joined = "pending"
    /\ worker.state = "returned"
    /\ waiter # "pending"
    /\ joined' = IF waiter = "ok" /\ worker.result = "ok" THEN "ok"
                 ELSE "failed"
    /\ pipe_open' = FALSE
    /\ UNCHANGED <<manifest, layerid, archive, proc, pipe, epipe, worker,
                   chan, consumer, waiter>>
    /\ UNCHANGED <<exportVars, auxVars>>

InitExtract ==
    /\ ExportIdle
    /\ AuxIdle
    /\ manifest = <<[media_type |-> "OCI_TYPE_LAYER",
                     digest |-> Sha256Prefix \o BlobId]>>
    /\ layerid = find_layer_blobid(manifest)
    /\ archive \in Archives
    /\ proc = [state |-> "running", pos |-> 1]
    /\ pipe = << >>
    /\ pipe_open = TRUE
    /\ epipe = FALSE
    /\ worker = NewWorker
    /\ chan = << >>
    /\ consumer = [state |-> "reading", received |-> << >>]
    /\ waiter = "pending"
    /\ joined = "pending"

NextExtract ==
    \/ ProcWrite
    \/ ProcEpipe
    \/ ProcExit
    \/ ProcFail
    \/ WorkerNext
    \/ WorkerRead
    \/ WorkerSend
    \/ ConsumerRecv
    \/ ConsumerEof
    \/ ConsumerDrop
    \/ WaiterDone
    \/ JoinDone

SpecExtract == InitExtract /\ [][NextExtract]_vars

\* Every task of the pipeline that can take a step is scheduled: the
\* subprocess runs, the blocking worker has a thread of its own, the runtime
\* polls the waiter and the join, and a consumer that has not dropped the
\* stream reads it.  Nothing makes the subprocess fail or the consumer drop
\* the stream.
SpecExtractFair ==
    /\ SpecExtract
    /\ WF_vars(ProcWrite)
    /\ WF_vars(ProcEpipe)
    /\ WF_vars(ProcExit)
    /\ WF_vars(WorkerNext)
    /\ WF_vars(WorkerRead)
    /\ WF_vars(WorkerSend)
    /\ WF_vars(ConsumerRecv)
    /\ WF_vars(ConsumerEof)
    /\ WF_vars(WaiterDone)
    /\ WF_vars(JoinDone)

(***************************************************************************)
(* import: the policy check, the manifest, the layer selection, then       *)
(* fetch_layer, whose pipeline runs concurrently with import_tar, and the  *)
(* join of the two.                                                        *)
(***************************************************************************)
\* enum SignatureSource
SignatureSources ==
    {"OstreeRemote", "ContainerPolicy", "ContainerPolicyAllowInsecure"}

RefusingUsage ==
    "containers-policy.json specifies a default of insecureAcceptAnything"

\* What import returns with an error, and what it returns with an Import
ImportErr(e) == [ok |-> FALSE, error |-> e]
ImportOk == [ok |-> TRUE, error |-> "none"]

\* The manifests skopeo inspect may print
ImportManifests ==
    {<<[media_type |-> "OCI_TYPE_LAYER", digest |-> Sha256Prefix \o BlobId]>>,
     <<[media_type |-> "other", digest |-> Sha256Prefix \o BlobId]>>,
     <<[media_type |-> "OCI_TYPE_LAYER", digest |-> Sha256Prefix \o BlobId],
       [media_type |-> "DOCKER_TYPE_LAYER",
        digest |-> Sha256Prefix \o OtherId]>>}

\* The archives skopeo copy may write
ImportArchives == {a \in Archives : Len(a) <= 1}

\* The policy check that queries the ambient policy whatever the mode is
PolicyCheck_any_mode ==
    /\ ipc = "policy"
    /\ \E r \in {"insecure", "secure", "error"} :
          /\ policy' = r
          /\ IF r = "insecure"
             THEN ipc' = "failed" /\ result' = ImportErr(RefusingUsage)
             ELSE IF r = "error"
             THEN ipc' = "failed"
                  /\ result' = ImportErr("policy query failed")
             ELSE ipc' = "manifest" /\ result' = result
    /\ UNCHANGED <<sigverify, tempdir, tarimport>>
    /\ UNCHANGED <<progressVars, pathVars, importVars, exportVars>>

\* import's first statement: the && evaluates the policy query only for
\* ContainerPolicy, and the query itself may fail.
PolicyCheck ==
    /\ ipc = "policy"
    /\ IF sigverify = "ContainerPolicy"
       THEN \E r \in {"insecure", "secure", "error"} :
               /\ policy' = r
               /\ IF r = "insecure"
                  THEN ipc' = "failed" /\ result' = ImportErr(RefusingUsage)
                  ELSE IF r = "error"
                  THEN ipc' = "failed"
                       /\ result' = ImportErr("policy query failed")
                  ELSE ipc' = "manifest" /\ result' = result
       ELSE /\ policy' = policy
            /\ ipc' = "manifest"
            /\ result' = result
    /\ UNCHANGED <<sigverify, tempdir, tarimport>>
    /\ UNCHANGED <<progressVars, pathVars, importVars, exportVars>>

\* fetch_manifest: skopeo inspect --raw, its exit status, and the parse
FetchManifest ==
    /\ ipc = "manifest"
    /\ \/ /\ ipc' = "failed"
          /\ result' = ImportErr("skopeo inspect failed")
          /\ manifest' = manifest
       \/ /\ manifest' \in ImportManifests
          /\ ipc' = "layerid"
          /\ result' = result
    /\ UNCHANGED <<sigverify, policy, tempdir, tarimport>>
    /\ UNCHANGED <<layerid, archive, proc, pipe, pipe_open, epipe, worker,
                   chan, consumer, waiter, joined>>
    /\ UNCHANGED <<progressVars, pathVars, exportVars>>

\* let layerid = find_layer_blobid(manifest)?
SelectLayer ==
    /\ ipc = "layerid"
    /\ layerid' = find_layer_blobid(manifest)
    /\ IF layerid'.ok
       THEN ipc' = "tempdir" /\ result' = result
       ELSE ipc' = "failed" /\ result' = ImportErr(layerid'.err)
    /\ UNCHANGED <<sigverify, policy, tempdir, tarimport>>
    /\ UNCHANGED <<manifest, archive, proc, pipe, pipe_open, epipe, worker,
                   chan, consumer, waiter, joined>>
    /\ UNCHANGED <<progressVars, pathVars, exportVars>>

\* fetch_layer: tempfile::Builder::tempdir_in("/var/tmp")?
MakeTempdir ==
    /\ ipc = "tempdir"
    /\ \/ /\ tempdir' = "dir"
          /\ ipc' = "mkfifo"
          /\ result' = result
       \/ /\ tempdir' = tempdir
          /\ ipc' = "failed"
          /\ result' = ImportErr("tempdir failed")
    /\ UNCHANGED <<sigverify, policy, tarimport>>
    /\ UNCHANGED <<progressVars, pathVars, importVars, exportVars>>

\* fetch_layer: nix::unistd::mkfifo(fifo, 0o600)?; an error return drops
\* the TempDir, which removes the directory.
Mkfifo ==
    /\ ipc = "mkfifo"
    /\ \/ /\ tempdir' = "fifo"
          /\ ipc' = "spawn"
          /\ result' = result
       \/ /\ tempdir' = "removed"
          /\ ipc' = "failed"
          /\ result' = ImportErr("mkfifo failed")
    /\ UNCHANGED <<sigverify, policy, tarimport>>
    /\ UNCHANGED <<progressVars, pathVars, importVars, exportVars>>

\* fetch_layer: skopeo::spawn(proc)?
SpawnCopy ==
    /\ ipc = "spawn"
    /\ \/ /\ proc' = [state |-> "spawned", pos |-> 1]
          /\ tempdir' = tempdir
          /\ ipc' = "open"
          /\ result' = result
       \/ /\ proc' = proc
          /\ tempdir' = "removed"
          /\ ipc' = "failed"
          /\ result' = ImportErr("Failed to exec skopeo")
    /\ UNCHANGED <<sigverify, policy, tarimport>>
    /\ UNCHANGED <<manifest, layerid, archive, pipe, pipe_open, epipe,
                   worker, chan, consumer, waiter, joined>>
    /\ UNCHANGED <<progressVars, pathVars, exportVars>>

\* The subprocess opens the named pipe for writing; the open completes when
\* the read side is opened too.
ProcOpenFifo ==
    /\ proc.state = "spawned"
    /\ proc' = [proc EXCEPT !.state = "opening"]
    /\ UNCHANGED <<manifest, layerid, archive, pipe, pipe_open, epipe,
                   worker, chan, consumer, waiter, joined>>
    /\ UNCHANGED <<exportVars, auxVars>>

\* The subprocess exits with failure before it opens the named pipe.
ProcFailEarly ==
    /\ proc.state = "spawned"
    /\ proc' = [proc EXCEPT !.state = "failed"]
    /\ UNCHANGED <<manifest, layerid, archive, pipe, pipe_open, epipe,
                   worker, chan, consumer, waiter, joined>>
    /\ UNCHANGED <<exportVars, auxVars>>

\* fetch_layer: the pipeline a successful open starts.  What the rest of
\* fetch_layer and of import do without waiting: the waiter is made,
\* find_layer_tar spawns the worker, fetch_layer returns, which drops the
\* TempDir, and import joins import_tar with fetch_layer's worker.
StartPipeline ==
    /\ proc' = [proc EXCEPT !.state = "running"]
    /\ pipe_open' = TRUE
    /\ worker' = NewWorker
    /\ waiter' = "pending"
    /\ joined' = "pending"
    /\ consumer' = [state |-> "reading", received |-> << >>]
    /\ tarimport' = "pending"
    /\ tempdir' = "removed"
    /\ ipc' = "fetching"
    /\ result' = result

\* fetch_layer: tokio::fs::File::open(fifo).await.  The open of the read
\* side completes once the subprocess has opened the write side.
OpenFifo ==
    /\ ipc = "open"
    /\ proc.state = "opening"
    /\ StartPipeline
    /\ UNCHANGED <<sigverify, policy>>
    /\ UNCHANGED <<manifest, layerid, archive, pipe, epipe, chan>>
    /\ UNCHANGED <<progressVars, pathVars, exportVars>>

\* fetch_layer: tokio::fs::File::open(fifo).await?, the error of the open:
\* fetch_layer returns, which drops the TempDir and the child handle.
OpenFifoFail ==
    /\ ipc = "open"
    /\ ipc' = "failed"
    /\ result' = ImportErr("open failed")
    /\ tempdir' = "removed"
    /\ UNCHANGED <<sigverify, policy, tarimport>>
    /\ UNCHANGED <<progressVars, pathVars, importVars, exportVars>>

\* import_tar returns once it has read the stream to its end or has dropped
\* it: a commit checksum or an error.
ImportTarDone ==
    /\ tarimport = "pending"
    /\ consumer.state \in {"eof", "dropped"}
    /\ tarimport' \in {"ok", "failed"}
    /\ UNCHANGED <<ipc, sigverify, policy, tempdir, result>>
    /\ UNCHANGED <<progressVars, pathVars, importVars, exportVars>>

\* The return that does not wait for the layer fetch once import_tar failed
ImportReturn_try_join ==
    /\ ipc = "fetching"
    /\ \/ tarimport = "failed"
       \/ tarimport = "ok" /\ joined \in {"ok", "failed"}
    /\ IF tarimport = "failed"
       THEN ipc' = "failed" /\ result' = ImportErr("import_tar failed")
       ELSE IF joined = "failed"
       THEN ipc' = "failed" /\ result' = ImportErr("layer fetch failed")
       ELSE ipc' = "done" /\ result' = ImportOk
    /\ UNCHANGED <<sigverify, policy, tempdir, tarimport>>
    /\ UNCHANGED <<progressVars, pathVars, importVars, exportVars>>

\* import: tokio::join!(import, worker), then ostree_commit? and worker?
ImportReturn ==
    /\ ipc = "fetching"
    /\ tarimport \in {"ok", "failed"}
    /\ joined \in {"ok", "failed"}
    /\ IF tarimport = "failed"
       THEN ipc' = "failed" /\ result' = ImportErr("import_tar failed")
       ELSE IF joined = "failed"
       THEN ipc' = "failed" /\ result' = ImportErr("layer fetch failed")
       ELSE ipc' = "done" /\ result' = ImportOk
    /\ UNCHANGED <<sigverify, policy, tempdir, tarimport>>
    /\ UNCHANGED <<progressVars, pathVars, importVars, exportVars>>

InitImport ==
    /\ ExportIdle
    /\ ProgressIdle
    /\ PathIdle
    /\ ipc = "policy"
    /\ sigverify \in SignatureSources
    /\ policy = "unqueried"
    /\ tempdir = "none"
    /\ tarimport = "none"
    /\ result = ImportErr("none")
    /\ manifest = << >>
    /\ layerid = BlobErr("pending")
    /\ archive \in ImportArchives
    /\ proc = [state |-> "none", pos |-> 1]
    /\ pipe = << >>
    /\ pipe_open = FALSE
    /\ epipe = FALSE
    /\ worker = [NewWorker EXCEPT !.state = "none"]
    /\ chan = << >>
    /\ consumer = [state |-> "none", received |-> << >>]
    /\ waiter = "none"
    /\ joined = "none"

NextImport ==
    \/ PolicyCheck
    \/ FetchManifest
    \/ SelectLayer
    \/ MakeTempdir
    \/ Mkfifo
    \/ SpawnCopy
    \/ ProcOpenFifo
    \/ ProcFailEarly
    \/ OpenFifo
    \/ OpenFifoFail
    \/ ProcWrite
    \/ ProcEpipe
    \/ ProcExit
    \/ ProcFail
    \/ WorkerNext
    \/ WorkerRead
    \/ WorkerSend
    \/ ConsumerRecv
    \/ ConsumerEof
    \/ ConsumerDrop
    \/ WaiterDone
    \/ JoinDone
    \/ ImportTarDone
    \/ ImportReturn

SpecImport == InitImport /\ [][NextImport]_vars

\* Every task that can take a step is scheduled: the runtime polls the
\* futures import joins, the blocking worker runs on a thread of its own,
\* and the subprocess runs.  Nothing makes the subprocess or an open fail,
\* or the consumer drop the stream.
SpecImportFair ==
    /\ SpecImport
    /\ WF_vars(PolicyCheck)
    /\ WF_vars(FetchManifest)
    /\ WF_vars(SelectLayer)
    /\ WF_vars(MakeTempdir)
    /\ WF_vars(Mkfifo)
    /\ WF_vars(SpawnCopy)
    /\ WF_vars(ProcOpenFifo)
    /\ WF_vars(OpenFifo)
    /\ WF_vars(ProcWrite)
    /\ WF_vars(ProcEpipe)
    /\ WF_vars(ProcExit)
    /\ WF_vars(WorkerNext)
    /\ WF_vars(WorkerRead)
    /\ WF_vars(WorkerSend)
    /\ WF_vars(ConsumerRecv)
    /\ WF_vars(ConsumerEof)
    /\ WF_vars(WaiterDone)
    /\ WF_vars(JoinDone)
    /\ WF_vars(ImportTarDone)
    /\ WF_vars(ImportReturn)

(***************************************************************************)
(* ProgressReader: a reader that publishes the number of bytes read to a   *)
(* watch channel.                                                          *)
(***************************************************************************)
\* What the poll_read of the inner reader returns: Ready(Ok) with n bytes
\* filled (none at the end of the stream), Pending, or Ready(Err).
ReadyOk(n) == [kind |-> "ReadyOk", n |-> n]
Pending == [kind |-> "Pending", n |-> 0]
ReadyErr == [kind |-> "ReadyErr", n |-> 0]
Polls == {ReadyOk(n) : n \in 0..MaxRead} \cup {Pending, ReadyErr}

\* ImportProgress::default()
ImportProgress == [processed_bytes |-> 0]

\* poll_read without the subtraction of the bytes the buffer held before
poll_read_newlen(self, w, len, v) ==
    IF v.kind = "ReadyOk"
    THEN LET newlen == len + v.n
             attempt == self.progress = "Some"
             state == [w.state EXCEPT !.processed_bytes = @ + newlen]
             success == IF attempt THEN w.receivers ELSE TRUE
         IN [self |-> IF success THEN self
                      ELSE [self EXCEPT !.progress = "None"],
             watch |-> IF attempt /\ w.receivers
                       THEN [w EXCEPT !.state = state] ELSE w,
             ret |-> v,
             filled |-> newlen,
             attempted |-> attempt,
             sent |-> attempt /\ w.receivers]
    ELSE [self |-> self, watch |-> w, ret |-> v, filled |-> len,
          attempted |-> FALSE, sent |-> FALSE]

\* poll_read that keeps its observer after a failed send
poll_read_keep_observer(self, w, len, v) ==
    IF v.kind = "ReadyOk"
    THEN LET newlen == len + v.n
             attempt == self.progress = "Some"
             state == [w.state EXCEPT !.processed_bytes = @ + (newlen - len)]
         IN [self |-> self,
             watch |-> IF attempt /\ w.receivers
                       THEN [w EXCEPT !.state = state] ELSE w,
             ret |-> v,
             filled |-> newlen,
             attempted |-> attempt,
             sent |-> attempt /\ w.receivers]
    ELSE [self |-> self, watch |-> w, ret |-> v, filled |-> len,
          attempted |-> FALSE, sent |-> FALSE]

\* ProgressReader::poll_read on a buffer with len bytes filled, where the
\* inner reader returns v.  watch::Sender::send stores the value and
\* succeeds while a receiver exists, and fails without storing otherwise.
poll_read(self, w, len, v) ==
    IF v.kind = "ReadyOk"
    THEN LET newlen == len + v.n
             attempt == self.progress = "Some"
             state == [w.state EXCEPT !.processed_bytes = @ + (newlen - len)]
             success == IF attempt THEN w.receivers ELSE TRUE
         IN [self |-> IF success THEN self
                      ELSE [self EXCEPT !.progress = "None"],
             watch |-> IF attempt /\ w.receivers
                       THEN [w EXCEPT !.state = state] ELSE w,
             ret |-> v,
             filled |-> newlen,
             attempted |-> attempt,
             sent |-> attempt /\ w.receivers]
    ELSE [self |-> self, watch |-> w, ret |-> v, filled |-> len,
          attempted |-> FALSE, sent |-> FALSE]

\* A call of poll_read by the consumer of the reader
PollRead ==
    /\ Len(polls) < MaxPolls
    /\ \E len \in 0..MaxFilled, v \in Polls :
          LET r == poll_read(preader, watch, len, v)
          IN /\ preader' = r.self
             /\ watch' = r.watch
             /\ polls' = Append(polls,
                                [len |-> len, inner |-> v, ret |-> r.ret,
                                 filled |-> r.filled,
                                 attempted |-> r.attempted,
                                 sent |-> r.sent,
                                 published |-> r.watch.state.processed_bytes])
    /\ UNCHANGED <<orchVars, pathVars, importVars, exportVars>>

\* The observer drops its receiver of the watch channel.
ObserverDrop ==
    /\ watch.receivers
    /\ watch' = [watch EXCEPT !.receivers = FALSE]
    /\ UNCHANGED <<preader, polls>>
    /\ UNCHANGED <<orchVars, pathVars, importVars, exportVars>>

InitProgress ==
    /\ ExportIdle
    /\ ImportIdle
    /\ OrchIdle
    /\ PathIdle
    /\ preader \in [progress : {"Some", "None"}, reader : {<< >>}]
    /\ watch \in [state : {ImportProgress}, receivers : BOOLEAN]
    /\ preader.progress = "None" => ~watch.receivers
    /\ polls = << >>

NextProgress == PollRead \/ ObserverDrop

SpecProgress == InitProgress /\ [][NextProgress]_vars

(***************************************************************************)
(* Properties of the logical paths of the export.                          *)
(***************************************************************************)
\* The paths map_path is tried on: up to MaxPathLen components, "/" among
\* them
PathNames == {".", "/", "usr", "etc", "blah"}
MapPathInputs ==
    UNION {[1..n -> {<<c>> : c \in PathNames}] : n \in 0..MaxPathLen}

\* Path p lies under ./usr/etc, by whole components
UnderUsrEtc(p) ==
    /\ Len(p) >= 3
    /\ p[1] = <<".">> /\ p[2] = <<"usr">> /\ p[3] = <<"etc">>

\* The files and directories the walk of tree t at the path dirpath of the
\* commit visits, with the object a file is linked to
RECURSIVE Walked(_, _, _)
Walked(t, dirpath, is_root) ==
    LET tree == DirTreeOf(t)
        files == {[path |-> Append(dirpath, <<tree.files[i][1]>>),
                   type |-> "Link",
                   link |-> object_path("File", tree.files[i][2])] :
                     i \in DOMAIN tree.files}
        walkedDirs == {i \in DOMAIN tree.dirs :
                         ~(is_root /\ tree.dirs[i][1] = SYSROOT)}
        dirs == {[path |-> Append(dirpath, <<tree.dirs[i][1]>>),
                  type |-> "Directory", link |-> << >>] : i \in walkedDirs}
    IN files \cup dirs
         \cup UNION {Walked(tree.dirs[i][2],
                            Append(dirpath, <<tree.dirs[i][1]>>), FALSE) :
                       i \in walkedDirs}

\* C18: map_path turns a path under ./usr/etc into ./etc followed by the
\* same remainder and leaves every other path as it is; and so no entry of
\* the archive lies under ./usr/etc, and every file and directory walked at
\* a path of the commit under ./usr/etc has its entry at that path's
\* remainder under ./etc, every other one at its own path.
C18_UsrEtcBecomesEtc ==
    /\ \A p \in MapPathInputs :
          map_path(p) = IF UnderUsrEtc(p)
                        THEN << <<".">>, <<"etc">> >> \o SubSeq(p, 4, Len(p))
                        ELSE p
    /\ \A i \in DOMAIN writer.out : ~UnderUsrEtc(writer.out[i].path)
    /\ pc = "done" =>
          \A e \in Walked(CommitOf(rev).contents, << <<".">> >>, TRUE) :
             LET logical == IF UnderUsrEtc(e.path)
                            THEN << <<".">>, <<"etc">> >>
                                   \o SubSeq(e.path, 4, Len(e.path))
                            ELSE e.path
             IN \E i \in At(writer.out, logical) :
                   /\ writer.out[i].type = e.type
                   /\ writer.out[i].link = e.link

C18_Witness ==
    /\ pc = "done"
    /\ rev = K1
    /\ \E i \in At(writer.out, P(<<".", "etc">>)) :
          writer.out[i].type = "Directory"
    /\ \E i \in At(writer.out, P(<<".", "etc", "b">>)) :
          /\ writer.out[i].type = "Link"
          /\ writer.out[i].link = object_path("File", F2)
    /\ At(writer.out, P(<<".", "usr", "sysroot", "c">>)) # {}

(***************************************************************************)
(* The path functions, applied to checksums.                               *)
(***************************************************************************)
\* ostree::ObjectType, the types object_path does not panic on
ObjectTypes == {"Commit", "CommitMeta", "DirTree", "DirMeta", "File"}

PathChecksums ==
    {Csum(HexDigits[i], HexDigits[j]) : i, j \in 1..PathHexes}

\* The calls that were made are kept two at a time: the last, and the one
\* before it.
Called(call) ==
    pathcalls' = IF Len(pathcalls) < 2 THEN Append(pathcalls, call)
                 ELSE <<pathcalls[2], call>>

CallObjectPath ==
    /\ \E objtype \in ObjectTypes, checksum \in PathChecksums :
          Called([fn |-> "object_path", objtype |-> objtype,
                  checksum |-> checksum,
                  path |-> object_path(objtype, checksum)])
    /\ UNCHANGED <<orchVars, progressVars, importVars, exportVars>>

CallV0XattrsPath ==
    /\ \E checksum \in PathChecksums :
          Called([fn |-> "v0_xattrs_path", objtype |-> "none",
                  checksum |-> checksum, path |-> v0_xattrs_path(checksum)])
    /\ UNCHANGED <<orchVars, progressVars, importVars, exportVars>>

CallV0XattrsObjectPath ==
    /\ \E checksum \in PathChecksums :
          Called([fn |-> "v0_xattrs_object_path", objtype |-> "none",
                  checksum |-> checksum,
                  path |-> v0_xattrs_object_path(checksum)])
    /\ UNCHANGED <<orchVars, progressVars, importVars, exportVars>>

CallV1XattrsObjectPath ==
    /\ \E checksum \in PathChecksums :
          Called([fn |-> "v1_xattrs_object_path", objtype |-> "none",
                  checksum |-> checksum,
                  path |-> v1_xattrs_object_path(checksum)])
    /\ UNCHANGED <<orchVars, progressVars, importVars, exportVars>>

CallV1XattrsLinkObjectPath ==
    /\ \E checksum \in PathChecksums :
          Called([fn |-> "v1_xattrs_link_object_path", objtype |-> "none",
                  checksum |-> checksum,
                  path |-> v1_xattrs_link_object_path(checksum)])
    /\ UNCHANGED <<orchVars, progressVars, importVars, exportVars>>

InitPath ==
    /\ ExportIdle
    /\ ImportIdle
    /\ OrchIdle
    /\ ProgressIdle
    /\ pathcalls = << >>

NextPath ==
    \/ CallObjectPath
    \/ CallV0XattrsPath
    \/ CallV0XattrsObjectPath
    \/ CallV1XattrsObjectPath
    \/ CallV1XattrsLinkObjectPath

SpecPath == InitPath /\ [][NextPath]_vars

(***************************************************************************)
(* Properties of the layer selection and of the layer extraction.          *)
(***************************************************************************)
\* The positions of the manifest's layers of a recognized layer media type
EligibleLayers ==
    {i \in DOMAIN manifest :
        manifest[i].media_type \in {"DOCKER_TYPE_LAYER", "OCI_TYPE_LAYER"}}

\* C7 as claimed: find_layer_blobid fails when no layer or several layers
\* have a layer media type, and with exactly one it succeeds and returns
\* that layer's digest without the sha256: prefix.
C7_ExactlyOneSucceeds ==
    layerid.err # "pending" =>
        IF Cardinality(EligibleLayers) = 1
        THEN /\ layerid.ok
             /\ \E i \in EligibleLayers :
                   manifest[i].digest = Sha256Prefix \o layerid.hash
        ELSE ~layerid.ok

\* C7 amended: find_layer_blobid fails when no layer or several layers have
\* a layer media type; with exactly one, it succeeds and returns the digest
\* without its prefix when the digest starts with sha256:, and fails when
\* the digest does not; the other layers never change the outcome.
C7_ExactlyOneSha256 ==
    layerid.err # "pending" =>
        LET n == Cardinality(EligibleLayers)
        IN /\ n = 0 => ~layerid.ok /\ layerid.err = "No layers found"
           /\ n > 1 => ~layerid.ok /\ layerid.err = "Expected 1 layer"
           /\ n = 1 =>
                \E i \in EligibleLayers :
                   LET d == manifest[i].digest
                   IN IF Len(d) >= 7 /\ SubSeq(d, 1, 7) = Sha256Prefix
                      THEN /\ layerid.ok
                           /\ layerid.err = "none"
                           /\ layerid.hash = SubSeq(d, 8, Len(d))
                      ELSE /\ ~layerid.ok
                           /\ layerid.err = "Expected sha256: in digest"

C7_Witness ==
    /\ layerid.ok
    /\ layerid.hash = OtherId
    /\ Len(manifest) = 3
    /\ EligibleLayers = {3}
    /\ manifest[1].digest = Sha256Prefix \o BlobId

\* The positions of the regular entries with the extension tar
TarRegular ==
    {i \in DOMAIN archive :
        /\ archive[i].type = "Regular"
        /\ Len(FileName(archive[i].path)) >= 3
        /\ SubSeq(FileName(archive[i].path),
                  Len(FileName(archive[i].path)) - 1,
                  Len(FileName(archive[i].path))) = <<".", "tar">>}

\* Entry i is named after the selected blob id
IsTarget(i) == FileName(archive[i].path) = layerid.hash \o <<".", "tar">>

\* Entry i is a layer.tar symlink that points elsewhere than ../<blobid>.tar
IsBadLink(i) ==
    /\ archive[i].type = "Symlink"
    /\ FileName(archive[i].path) = <<"layer", ".", "tar">>
    /\ archive[i].link # << <<"..">>, layerid.hash \o <<".", "tar">> >>

\* The subprocess stages the whole archive: it has not failed of its own,
\* so that the stream the extractor reads is not cut short
Staged == ~(proc.state = "failed" /\ ~epipe)

\* C8 as claimed: from a staged archive whose only regular .tar entry is
\* the target, the consumer receives exactly the target's bytes and the
\* extractor returns success; from one with no regular .tar entry the
\* extractor scans every entry, forwards nothing and returns "not found".
C8_ForwardsTarget ==
    /\ \A i \in DOMAIN archive :
          (/\ Staged
           /\ TarRegular = {i}
           /\ IsTarget(i)
           /\ worker.state = "returned"
           /\ consumer.state = "eof")
          => /\ worker.result = "ok"
             /\ consumer.received = archive[i].data
    /\ (Staged /\ TarRegular = {} /\ worker.state = "returned")
          => /\ worker.result = "Failed to find layer"
             /\ worker.scanned = Len(archive)
             /\ consumer.received = << >>
             /\ chan = << >>

\* C8 amended: the same, for a consumer that reads to the end of the
\* stream and for an archive in which no layer.tar symlink with another
\* target than ../<blobid>.tar precedes the target (for the archive without
\* a regular .tar entry: occurs at all).
C8_ForwardsTargetNoBadLink ==
    /\ \A i \in DOMAIN archive :
          (/\ Staged
           /\ TarRegular = {i}
           /\ IsTarget(i)
           /\ \A j \in 1..(i - 1) : ~IsBadLink(j)
           /\ worker.state = "returned"
           /\ consumer.state = "eof")
          => /\ worker.result = "ok"
             /\ consumer.received = archive[i].data
    /\ (/\ Staged
        /\ TarRegular = {}
        /\ \A j \in DOMAIN archive : ~IsBadLink(j)
        /\ worker.state = "returned")
          => /\ worker.result = "Failed to find layer"
             /\ worker.scanned = Len(archive)
             /\ consumer.received = << >>
             /\ chan = << >>

C8_Witness ==
    /\ Staged
    /\ Len(archive) = 2
    /\ TarRegular = {2}
    /\ IsTarget(2)
    /\ worker.state = "returned"
    /\ worker.result = "ok"
    /\ consumer.state = "eof"
    /\ consumer.received = <<1, 2>>

\* C9: the only entry whose bytes the extractor forwards is the first
\* regular entry named after the selected blob id; a regular .tar entry of
\* another name that comes earlier is skipped.
C9_OnlyTargetForwarded ==
    worker.state \in {"read", "send"} =>
        /\ IsTarget(worker.cur)
        /\ \A j \in 1..(worker.cur - 1) :
              ~(j \in TarRegular /\ IsTarget(j))

\* C10: after the target is found the extractor still reads every entry up
\* to the end of the archive before it returns, and on success the read
\* side of the pipe stays open until the wait for the subprocess has
\* completed, so that the subprocess never writes into a closed pipe.
C10_DrainsAndKeepsPipe ==
    worker.result = "ok" =>
        /\ worker.found
        /\ worker.scanned = Min(proc.pos - 1, Len(archive))
        /\ proc.pos > Len(archive) + 1 \/ proc.state # "running"
        /\ ~pipe_open => waiter # "pending" /\ joined # "pending"
        /\ ~epipe

C10_Witness ==
    /\ worker.result = "ok"
    /\ worker.cur = 1
    /\ Len(archive) = 2
    /\ worker.scanned = 2
    /\ proc.state = "ok"
    /\ joined = "ok"
    /\ ~pipe_open
    /\ ~epipe

\* C11: a consumer that disconnects makes the extractor stop forwarding
\* (nothing is put into the channel of a disconnected consumer, and the
\* extractor leaves an entry unfinished only then), the entry counts as
\* found, the remaining entries are read without being forwarded and the
\* extractor returns success; an error of the extractor is caused by the
\* archive alone: "not found" only if no regular .tar entry was scanned,
\* "unexpected layer link" only at such a link before any regular .tar entry.
C11_DisconnectIsSuccess ==
    /\ consumer.state = "dropped" => chan = << >>
    /\ (worker.found /\ ~worker.done) => consumer.state = "dropped"
    /\ (worker.state = "returned" /\ worker.cur # 0) =>
          /\ worker.result = "ok"
          /\ worker.found
          /\ worker.scanned = Min(proc.pos - 1, Len(archive))
    /\ worker.result = "Failed to find layer" =>
          \A i \in 1..worker.scanned : i \notin TarRegular
    /\ worker.result = "Found unexpected layer link" =>
          /\ IsBadLink(worker.scanned)
          /\ \A i \in 1..(worker.scanned - 1) : i \notin TarRegular

C11_Witness ==
    /\ consumer.state = "dropped"
    /\ consumer.received = <<1>>
    /\ worker.state = "returned"
    /\ worker.result = "ok"
    /\ worker.found
    /\ ~worker.done
    /\ worker.cur = 1
    /\ Len(archive) = 2
    /\ worker.scanned = 2

(***************************************************************************)
(* Properties of import.                                                   *)
(***************************************************************************)
\* import returned with the error of its policy check
FailedAtPolicyCheck ==
    /\ ipc = "failed"
    /\ result.error \in {RefusingUsage, "policy query failed"}

\* Nothing of the fetch exists
NothingFetched ==
    /\ manifest = << >>
    /\ layerid.err = "pending"
    /\ tempdir = "none"
    /\ proc.state = "none"
    /\ ~pipe_open
    /\ worker.state = "none"
    /\ tarimport = "none"
    /\ consumer.received = << >>

\* C12 as claimed: the policy check fails the import exactly when the mode
\* is ContainerPolicy and the ambient policy defaults to
\* insecureAcceptAnything, and then the import has failed before the
\* manifest was fetched and before a temporary directory, a pipe or a
\* subprocess existed, with nothing imported.
C12_PolicyFailsExactly ==
    /\ ipc # "policy" =>
          (FailedAtPolicyCheck
             <=> (sigverify = "ContainerPolicy" /\ policy = "insecure"))
    /\ FailedAtPolicyCheck => NothingFetched /\ ~result.ok

\* C12 amended: the policy check fails the import exactly when the mode is
\* ContainerPolicy and the query of the ambient policy either answers that
\* the default is insecureAcceptAnything or fails itself; with another mode
\* the policy is not queried.  A failed policy check leaves nothing fetched.
C12_PolicyFailsOrQueryFails ==
    /\ ipc # "policy" =>
          (FailedAtPolicyCheck
             <=> (/\ sigverify = "ContainerPolicy"
                  /\ policy \in {"insecure", "error"}))
    /\ ipc # "policy" =>
          (result.error = RefusingUsage
             <=> (sigverify = "ContainerPolicy" /\ policy = "insecure"))
    /\ sigverify # "ContainerPolicy" => policy = "unqueried"
    /\ FailedAtPolicyCheck => NothingFetched /\ ~result.ok

C12_Witness ==
    /\ ipc = "failed"
    /\ sigverify = "ContainerPolicy"
    /\ policy = "insecure"
    /\ result = ImportErr(RefusingUsage)
    /\ manifest = << >>

\* C13: import returns an Import only when the copy subprocess exited with
\* success, the extractor returned success and import_tar returned a commit
\* checksum; once one of the three has failed, the import that returns
\* returns an error.
C13_SuccessNeedsAllThree ==
    /\ result.ok <=> ipc = "done"
    /\ ipc = "done" =>
          /\ proc.state = "ok"
          /\ waiter = "ok"
          /\ worker.state = "returned"
          /\ worker.result = "ok"
          /\ joined = "ok"
          /\ tarimport = "ok"
    /\ (/\ ipc \in {"done", "failed"}
        /\ \/ proc.state = "failed"
           \/ worker.result \notin {"none", "ok"}
           \/ tarimport = "failed")
          => ipc = "failed" /\ ~result.ok

C13_Witness ==
    /\ ipc = "failed"
    /\ result.error = "layer fetch failed"
    /\ proc.state = "failed"
    /\ worker.result = "ok"
    /\ tarimport = "ok"
    /\ consumer.received = <<1, 2>>

\* C14: when import returns after it has staged the temporary directory
\* and spawned the copy subprocess, the directory with its named pipe is
\* removed and the subprocess has been waited for.
C14_ReleasedOnReturn ==
    (ipc \in {"done", "failed"} /\ proc.state # "none") =>
        /\ tempdir = "removed"
        /\ waiter \in {"ok", "failed"}

\* C15: once the copy subprocess has exited with failure, the import
\* eventually returns, and returns an error.
C15_FailedSubprocessTerminates ==
    (proc.state = "failed") ~> (ipc = "failed")

(***************************************************************************)
(* Properties of the ProgressReader.                                       *)
(***************************************************************************)
\* The bytes the first i reads delivered to the consumer
RECURSIVE Delivered(_)
Delivered(i) ==
    IF i = 0 THEN 0
    ELSE Delivered(i - 1)
           + (IF polls[i].ret.kind = "ReadyOk"
              THEN polls[i].filled - polls[i].len ELSE 0)

\* The reader has an observer, which is still connected
ObserverConnected == preader.progress = "Some" /\ watch.receivers

C17_ProgressNeverAffectsData ==
    /\ \A i \in DOMAIN polls :
          /\ polls[i].ret = polls[i].inner
          /\ polls[i].filled = polls[i].len + polls[i].inner.n
          /\ polls[i].attempted => polls[i].inner.kind = "ReadyOk"
    /\ \A i, j \in DOMAIN polls :
          (i < j /\ polls[i].attempted /\ ~polls[i].sent)
             => ~polls[j].attempted
    /\ (\E i \in DOMAIN polls : polls[i].attempted /\ ~polls[i].sent)
          => preader.progress = "None"

C17_Witness ==
    /\ Len(polls) = 3
    /\ polls[1].attempted /\ ~polls[1].sent
    /\ polls[2].ret = ReadyOk(1) /\ ~polls[2].attempted
    /\ polls[3].ret = ReadyErr
    /\ preader.progress = "None"

(***************************************************************************)
(* Properties of the path layout.                                          *)
(***************************************************************************)
\* The path the layout gives the call: under sysroot/ostree/repo, the file
\* <rest><tail> in objects/<shard>, or the file <checksum> in xattrs
LayoutPath(call) ==
    LET repo == << <<"sysroot">>, <<"ostree">>, <<"repo">> >>
        shard == SubSeq(call.checksum, 1, 2)
        rest == SubSeq(call.checksum, 3, Len(call.checksum))
        sharded(tail) == repo \o << <<"objects">>, shard, rest \o tail >>
    IN CASE call.fn = "object_path" /\ call.objtype = "Commit" ->
              sharded(<<".", "commit">>)
         [] call.fn = "object_path" /\ call.objtype = "CommitMeta" ->
              sharded(<<".", "commitmeta">>)
         [] call.fn = "object_path" /\ call.objtype = "DirTree" ->
              sharded(<<".", "dirtree">>)
         [] call.fn = "object_path" /\ call.objtype = "DirMeta" ->
              sharded(<<".", "dirmeta">>)
         [] call.fn = "object_path" /\ call.objtype = "File" ->
              sharded(<<".", "file">>)
         [] call.fn = "v0_xattrs_path" ->
              repo \o << <<"xattrs">>, call.checksum >>
         [] call.fn = "v0_xattrs_object_path" ->
              sharded(<<".", "file", ".", "xattrs">>)
         [] call.fn = "v1_xattrs_object_path" ->
              sharded(<<".", "file-xattrs">>)
         [] call.fn = "v1_xattrs_link_object_path" ->
              sharded(<<".", "file-xattrs-link">>)

SameInputs(a, b) ==
    a.fn = b.fn /\ a.objtype = b.objtype /\ a.checksum = b.checksum

\* C19: every path function returns the path of the layout (object_path
\* objects/<shard>/<rest>.<suffix>, the format-0 attribute path
\* xattrs/<checksum>, the format-0 link <rest>.file.xattrs, the format-1
\* attribute object <rest>.file-xattrs and link <rest>.file-xattrs-link, all
\* under sysroot/ostree/repo); two calls with the same inputs return the
\* same path, and two calls that differ in the kind or in the checksum
\* return different paths.
C19_PathLayout ==
    /\ \A i \in DOMAIN pathcalls : pathcalls[i].path = LayoutPath(pathcalls[i])
    /\ \A i, j \in DOMAIN pathcalls :
          SameInputs(pathcalls[i], pathcalls[j])
             <=> pathcalls[i].path = pathcalls[j].path

C19_Witness ==
    /\ Len(pathcalls) = 2
    /\ pathcalls[1].fn = "v1_xattrs_object_path"
    /\ pathcalls[2].fn = "v1_xattrs_link_object_path"
    /\ pathcalls[1].checksum = pathcalls[2].checksum
    /\ pathcalls[1].path # pathcalls[2].path
    /\ pathcalls[2].path[5] = <<"1", "0">>

(***************************************************************************)
(* Properties of the attribute entries.                                    *)
(***************************************************************************)
\* C20: in format 0 and in format 1, the attribute blob of every exported
\* file that has attribute entries is in the archive exactly once, at the
\* path of the blob's own digest, however many files carry that blob, and
\* the file has one link entry of its own, at the path of the file's
\* checksum, which points at that blob entry and follows it.
C20_BlobOnceLinkEach ==
    LET out == writer.out
    IN \A f \in Files :
          (/\ Format \in {0, 1}
           /\ At(out, object_path("File", f)) # {}
           /\ ~(Format = 0 /\ xattrs[f] = << >>))
          => LET blob == BlobPath(Format, Sha256Hex(xattrs[f]))
             IN /\ Cardinality(At(out, blob)) = 1
                /\ Cardinality(At(out, LinkPath(Format, f))) = 1
                /\ \A j \in At(out, LinkPath(Format, f)) :
                      /\ out[j].type = "Link"
                      /\ out[j].link = blob
                      /\ \E k \in At(out, blob) : k < j

(***************************************************************************)
(* Properties of the logical checkout entries.                             *)
(***************************************************************************)
\* The logical path of a path of the commit
Logical(p) ==
    IF UnderUsrEtc(p)
    THEN << <<".">>, <<"etc">> >> \o SubSeq(p, 4, Len(p))
    ELSE p

\* The file entries and the directories the export of the commit walks
WalkedOf(commit_checksum) ==
    Walked(CommitOf(commit_checksum).contents, << <<".">> >>, TRUE)

\* The hardlink entries of archive `out` at path p with the target l
LinksAt(out, p, l) ==
    {i \in At(out, p) : out[i].type = "Link" /\ out[i].link = l}

\* C21: a finished export has, for every logical path and target, as many
\* hardlink entries as the walk visited file entries with that logical path
\* and that File object, one per file entry, whether or not the content or
\* the DirTree was written before; and every hardlink entry of the
\* archive comes after an entry at the path it points at.
C21_OneHardlinkPerFileEntry ==
    LET out == writer.out
    IN /\ pc = "done" =>
             \A e \in {w \in WalkedOf(rev) : w.type = "Link"} :
                Cardinality(LinksAt(out, Logical(e.path), e.link))
                  = Cardinality({w \in WalkedOf(rev) :
                                   /\ w.type = "Link"
                                   /\ Logical(w.path) = Logical(e.path)
                                   /\ w.link = e.link})
       /\ \A i \in DOMAIN out :
             out[i].type = "Link" => \E k \in 1..(i - 1) : out[k].path = out[i].link

C21_Witness ==
    /\ pc = "done"
    /\ rev = K2
    /\ Cardinality(At(writer.out, object_path("DirTree", T_link))) = 1
    /\ Cardinality(At(writer.out, object_path("File", F1))) = 1
    /\ LinksAt(writer.out, P(<<".", "etc", "d">>),
               object_path("File", F1)) # {}
    /\ LinksAt(writer.out, P(<<".", "usr", "sysroot", "d">>),
               object_path("File", F1)) # {}
    /\ Cardinality(LinksAt(writer.out, P(<<".", "etc", "a">>),
                           object_path("File", F1))) = 2

\* The subdirectory entries of the root tree of the commit named sysroot
RootSysroot(commit_checksum) ==
    LET dirs == DirTreeOf(CommitOf(commit_checksum).contents).dirs
    IN {dirs[i] : i \in {k \in DOMAIN dirs : dirs[k][1] = SYSROOT}}

\* C22: of a subdirectory of the commit root named sysroot the export
\* writes the DirMeta object and nothing else: no entry at ./sysroot and
\* none below it; every other directory of the walk, one named sysroot
\* below the root level included, has its directory entry at its logical
\* path, its DirTree object and the entries of what it holds.
C22_OnlyRootSysrootSkipped ==
    LET out == writer.out
    IN /\ \A i \in DOMAIN out :
             ~HasPrefix(out[i].path, P(<<".", "sysroot">>))
       /\ pc = "done" =>
             /\ \A item \in RootSysroot(rev) :
                   At(out, object_path("DirMeta", item[3])) # {}
             /\ \A e \in WalkedOf(rev) :
                   \E i \in At(out, Logical(e.path)) : out[i].type = e.type
             /\ \A t \in Reachable(CommitOf(rev).contents, TRUE).trees :
                   At(out, object_path("DirTree", t)) # {}

C22_Witness ==
    /\ pc = "done"
    /\ rev = K1
    /\ At(writer.out, object_path("DirTree", T_sys)) = {}
    /\ \E i \in At(writer.out, object_path("DirMeta", M2)) :
          \E j \in At(writer.out, object_path("DirTree", T_usr)) : i < j
    /\ \E i \in At(writer.out, P(<<".", "usr", "sysroot">>)) :
          writer.out[i].type = "Directory"
    /\ At(writer.out, P(<<".", "usr", "sysroot", "c">>)) # {}
    /\ At(writer.out, object_path("DirTree", T_link)) # {}

\* C23: no two entries of the archive of an export have the same path.
C23_NoPathTwice ==
    \A i, j \in DOMAIN writer.out :
       i # j => writer.out[i].path # writer.out[j].path

(***************************************************************************)
(* Properties of the symlink validation of the extractor.                  *)
(***************************************************************************)
\* Entry i is a symlink with the extension tar that points elsewhere than
\* ../<blobid>.tar
IsBadTarLink(i) ==
    /\ archive[i].type = "Symlink"
    /\ Extension(archive[i].path) = <<"tar">>
    /\ archive[i].link # BlobSymlinkTarget(layerid.hash)

\* The extractor met entry i before it had found a layer
MetBeforeFound(i) ==
    /\ i \in 1..worker.scanned
    /\ \A j \in 1..(i - 1) : j \notin TarRegular

\* The extractor has failed at entry i with the error of the link check
FailedAtLink(i) ==
    /\ worker.state = "returned"
    /\ worker.result = "Found unexpected layer link"
    /\ worker.scanned = i

\* C24 as claimed: the extractor fails at every symlink with the extension
\* tar that it meets before a layer is found and that does not point at
\* ../<blobid>.tar, whatever the name of the symlink.
C24_EveryTarLinkValidated ==
    \A i \in DOMAIN archive :
       (MetBeforeFound(i) /\ IsBadTarLink(i)) => FailedAtLink(i)

\* C24 amended: the extractor fails at such a symlink when its file name
\* is layer.tar, and only then: a symlink of another name is passed over
\* whatever it points at.
C24_LayerTarLinkValidated ==
    /\ \A i \in DOMAIN archive :
          (MetBeforeFound(i) /\ IsBadLink(i)) => FailedAtLink(i)
    /\ worker.result = "Found unexpected layer link" =>
          /\ worker.scanned \in DOMAIN archive
          /\ IsBadLink(worker.scanned)
          /\ MetBeforeFound(worker.scanned)

C24_Witness ==
    /\ archive = <<E_aliasbad, E_linkbad>>
    /\ IsBadTarLink(1)
    /\ FailedAtLink(2)
    /\ ~pipe_open

(***************************************************************************)
(* Properties of the joins and of the staging directory of import.         *)
(***************************************************************************)
\* The pipeline of fetch_layer and import_tar have been started
FetchingStarted == tarimport # "none"

\* C25: an import whose pipeline was started has not returned, with an
\* Import or with an error, unless the subprocess has exited and its wait
\* has completed, the extractor has returned and import_tar has returned:
\* after the failure of one of them the others are still awaited.
C25_ReturnsAfterAllCompleted ==
    (FetchingStarted /\ ipc \in {"done", "failed"}) =>
        /\ proc.state \in {"ok", "failed"}
        /\ waiter \in {"ok", "failed"}
        /\ worker.state = "returned"
        /\ joined \in {"ok", "failed"}
        /\ tarimport \in {"ok", "failed"}
        /\ consumer.state \in {"eof", "dropped"}

C25_Witness ==
    /\ ipc = "failed"
    /\ result = ImportErr("import_tar failed")
    /\ consumer.state = "dropped"
    /\ consumer.received = << >>
    /\ archive = <<E_target>>
    /\ worker.result = "ok"
    /\ waiter = "ok"
    /\ joined = "ok"

\* C26: while the pipeline runs, with the copy subprocess running or the
\* extractor not yet returned, the staging directory and its named pipe
\* exist.
C26_TempdirLivesWhileFetching ==
    (/\ FetchingStarted
     /\ proc.state = "running" \/ worker.state # "returned")
       => tempdir = "fifo"

(***************************************************************************)
(* Properties of the dedup sets.                                           *)
(***************************************************************************)
\* C27: no insertion into a dedup set finds the checksum it inserts in the
\* set: the assertion on the result of the insertion has not failed, each
\* of the sets of DirTree, DirMeta and content checksums has one object
\* entry per member, and the members of wrote_xattrs are checksums of files
\* whose content was inserted in the same call.
C27_InsertionsAreFresh ==
    /\ ~writer.assert_failed
    /\ writer.wrote_xattrs \subseteq writer.wrote_content
    /\ \A t \in writer.wrote_dirtree :
          Cardinality(At(writer.out, object_path("DirTree", t))) = 1
    /\ \A m \in writer.wrote_dirmeta :
          Cardinality(At(writer.out, object_path("DirMeta", m))) <= 1
    /\ \A f \in writer.wrote_content :
          Cardinality(At(writer.out, object_path("File", f))) <= 1

C27_Witness ==
    /\ pc = "done"
    /\ rev = K2
    /\ Format = 1
    /\ xattrs[F1] = xattrs[F3]
    /\ {F1, F3} \subseteq writer.wrote_xattrs
    /\ Cardinality(At(writer.out, BlobPath(1, Sha256Hex(xattrs[F1])))) >= 2
    /\ T_link \in writer.wrote_dirtree
    /\ M1 \in writer.wrote_dirmeta
    /\ ~writer.assert_failed

(***************************************************************************)
(* Properties of the progress of the pipeline.                             *)
(***************************************************************************)
\* The worker has returned, the wait for the subprocess and the join have
\* completed, and the consumer is at the end of the stream or has dropped it
PipelineCompleted ==
    /\ worker.state = "returned"
    /\ waiter \in {"ok", "failed"}
    /\ joined \in {"ok", "failed"}
    /\ consumer.state \in {"eof", "dropped"}

\* C28: the channel never holds more than its two chunks, the consumer
\* reaches the end of the stream only after the worker has returned, and
\* under fair scheduling the worker, the wait for the subprocess and the
\* consumer all complete, whether the consumer reads to the end of the
\* stream or drops it.
C28_PipelineCompletes ==
    /\ [](Len(chan) <= ChanCap)
    /\ [](consumer.state = "eof" => worker.state = "returned")
    /\ <>PipelineCompleted

C28_Witness ==
    /\ PipelineCompleted
    /\ archive = <<E_json, E_target>>
    /\ proc.state = "ok"
    /\ worker.result = "ok"
    /\ consumer.state = "eof"
    /\ consumer.received = <<1, 2>>
    /\ joined = "ok"

\* The channel is full while the worker waits to send
C28_WitnessBackpressure ==
    /\ Len(chan) = ChanCap
    /\ worker.state = "send"
    /\ consumer.state = "reading"

(***************************************************************************)
(* The export specification.                                               *)
(***************************************************************************)
InitExport ==
    /\ ImportIdle
    /\ AuxIdle
    /\ xattrs \in [Files -> XattrBlobs]
    /\ rev \in Commits
    /\ writer = NewWriter([format_version |-> 0])
    /\ stack = << >>
    /\ pc = "idle"
    /\ error = "none"
    /\ prev = NoExport
    /\ nexports = 0

NextExport ==
    \/ \E format_version \in 0..MaxFormat : ExportCommit(format_version)
    \/ DirtreeEnter
    \/ DirtreeFile
    \/ DirtreeDir
    \/ DirtreeReturn

Spec == InitExport /\ [][NextExport]_vars
====
